---- MODULE Spec2Model ----
(***************************************************************************)
(* Model of the multi-language code analyzer of src/python/functions.py:   *)
(* MultiLanguageCodeAnalyzer._run and the three LanguageAnalyzer classes   *)
(* (PythonAnalyzer, JavaScriptAnalyzer, JavaAnalyzer).                     *)
(*                                                                         *)
(* Text.  A Python str on which the code does character work (split,       *)
(* startswith, suffix, lower) is a sequence of one-character strings.      *)
(* Fixed labels and messages are TLA+ strings; an f-string is the tuple of *)
(* its parts.  An Optional value is a sequence of length at most one: None *)
(* is the empty sequence and a value x is Some(x).                         *)
(*                                                                         *)
(* File content.  The content of a file is a sequence of items: an item is *)
(* the newline character NL or the text of one line (a record naming the   *)
(* statement written on that line, its indentation level and its           *)
(* identifiers).  Two line texts are never adjacent.                       *)
(*                                                                         *)
(* Numbers.  complexity_score is a float that is always a multiple of 0.5; *)
(* it is kept as the integer number of halves (score * 2).                 *)
(***************************************************************************)
EXTENDS Integers, Sequences, FiniteSets, TLC

VARIABLES
    file_path,   \* argument of _run / filepath argument of analyze
    disk,        \* what open(file_path) finds: [status, content]
    pc,          \* position of the call
    run_analyzers, \* local "analyzers" of _run: the list of analyzers it builds
    file_ext,    \* local of _run: Path(file_path).suffix.lower()
    analyzer,    \* local of _run: the selected analyzer (its class name) or None
    content,     \* the text read from the file
    tree,        \* local of PythonAnalyzer.analyze: the parsed ast
    todo,        \* the deque of ast.walk
    analysis,    \* the FileAnalysis being populated
    result,      \* what the call returned
    other,       \* the locals of a second call of _run, while it is not the one running
    create_crew  \* a Create_Crew instance: the description of its analysis task
                 \* and the descriptions its crew has been started with

vars == <<file_path, disk, pc, run_analyzers, file_ext, analyzer, content, tree, todo, analysis, result, other, create_crew>>

None == <<>>

Some(x) == <<x>>

\* there is no second call
NoCall == [pc |-> "none"]

\* no Create_Crew has been constructed
NoCrew == [description |-> <<>>, kickoffs |-> <<>>]

-----------------------------------------------------------------------------
(* Bounds of the model *)

\* longest file of the end-to-end specification, in lines
MaxLines == 2
\* longest Python source of the Python-analyzer specification, in lines
MaxPyLines == 3
\* deepest indentation level of a Python line
MaxIndent == 2
\* longest raw import list handed to a dependency classifier
MaxImports == 3

-----------------------------------------------------------------------------
(* Text helpers: the str methods the code uses *)

\* a finite set of integers as the increasing list of its elements
RECURSIVE SortedSeq(_)
SortedSeq(S) ==
    IF S = {} THEN <<>>
    ELSE LET m == CHOOSE x \in S : \A y \in S : x <= y
         IN  <<m>> \o SortedSeq(S \ {m})

\* str.split(sep) for a one-character separator: the pieces between the
\* occurrences of sep, always at least one piece
Split(s, sep) ==
    LET seps == SortedSeq({i \in 1..Len(s) : s[i] = sep})
        cuts == <<0>> \o seps \o <<Len(s) + 1>>
    IN  [k \in 1..(Len(seps) + 1) |-> SubSeq(s, cuts[k] + 1, cuts[k + 1] - 1)]

\* str.startswith(prefix)
StartsWith(s, prefix) ==
    /\ Len(s) >= Len(prefix)
    /\ SubSeq(s, 1, Len(prefix)) = prefix

\* str.endswith(suffix)
EndsWith(s, suffix) ==
    /\ Len(s) >= Len(suffix)
    /\ SubSeq(s, Len(s) - Len(suffix) + 1, Len(s)) = suffix

UpperToLower ==
    [A |-> "a", B |-> "b", C |-> "c", D |-> "d", E |-> "e", F |-> "f", G |-> "g",
     H |-> "h", I |-> "i", J |-> "j", K |-> "k", L |-> "l", M |-> "m", N |-> "n",
     O |-> "o", P |-> "p", Q |-> "q", R |-> "r", S |-> "s", T |-> "t", U |-> "u",
     V |-> "v", W |-> "w", X |-> "x", Y |-> "y", Z |-> "z"]

\* str.lower()
Lower(s) == [i \in 1..Len(s) |-> IF s[i] \in DOMAIN UpperToLower THEN UpperToLower[s[i]] ELSE s[i]]

\* str.rfind(c): the last position of c in s, 0 when absent (Python: -1)
RFind(s, c) ==
    IF \E i \in 1..Len(s) : s[i] = c
    THEN CHOOSE i \in 1..Len(s) : s[i] = c /\ \A j \in (i + 1)..Len(s) : s[j] # c
    ELSE 0

\* pathlib: PurePath.name, the final component of the path
PathName(p) == SubSeq(p, RFind(p, "/") + 1, Len(p))

\* pathlib: PurePath.suffix, the final component's last dot and what follows
\* it; empty when there is no dot, the name starts with its only dot, or the
\* name ends with a dot
PathSuffix(p) ==
    LET name == PathName(p)
        i    == RFind(name, ".")
    IN  IF 1 < i /\ i < Len(name) THEN SubSeq(name, i, Len(name)) ELSE <<>>

\* the elements of a list
Range(s) == {s[i] : i \in 1..Len(s)}

\* the list comprehension [s[i] for i in range(len(s)) if i in I]
Filter(s, I) ==
    LET order == SortedSeq(I) IN [j \in 1..Len(order) |-> s[order[j]]]

-----------------------------------------------------------------------------
(* Extension registry *)

\* PythonAnalyzer.get_file_extensions
PythonExtensions == << <<".", "p", "y">> >>

\* JavaScriptAnalyzer.get_file_extensions
JavaScriptExtensions ==
    << <<".", "j", "s">>, <<".", "t", "s">>, <<".", "j", "s", "x">>, <<".", "t", "s", "x">> >>

\* JavaAnalyzer.get_file_extensions
JavaExtensions == << <<".", "j", "a", "v", "a">> >>

\* analyzer.get_file_extensions(), by the class of the analyzer: the three
\* classes of the module, and two further subclasses of LanguageAnalyzer
\* (in no list that _run builds) whose extensions are also another class's
get_file_extensions(a) ==
    CASE a = "PythonAnalyzer"     -> PythonExtensions
      [] a = "JavaScriptAnalyzer" -> JavaScriptExtensions
      [] a = "JavaAnalyzer"       -> JavaExtensions
      [] a = "TypeScriptAnalyzer" -> << <<".", "t", "s">>, <<".", "t", "s", "x">> >>
      [] a = "JvmAnalyzer"        -> << <<".", "j", "a", "v", "a">>, <<".", "k", "t">> >>

\* the list of analyzers _run builds on every call
Analyzers == <<"PythonAnalyzer", "JavaScriptAnalyzer", "JavaAnalyzer">>

\* a registry that never selects the Java analyzer
MutGetAnalyzerNoJava(extension, analyzers) ==
    LET hits == {i \in 1..Len(analyzers) :
                    /\ analyzers[i] # "JavaAnalyzer"
                    /\ extension \in Range(get_file_extensions(analyzers[i]))}
    IN  IF hits = {} THEN None
        ELSE Some(analyzers[CHOOSE i \in hits : \A j \in hits : i <= j])

\* a registry where the analyzer registered last wins
MutGetAnalyzerLast(extension, analyzers) ==
    LET hits == {i \in 1..Len(analyzers) :
                    extension \in Range(get_file_extensions(analyzers[i]))}
    IN  IF hits = {} THEN None
        ELSE Some(analyzers[CHOOSE i \in hits : \A j \in hits : i >= j])

\* _get_analyzer_for_extension: the first analyzer of the list whose
\* extensions contain the extension, None when there is none
GetAnalyzerForExtension(extension, analyzers) ==
    LET hits == {i \in 1..Len(analyzers) :
                    extension \in Range(get_file_extensions(analyzers[i]))}
    IN  IF hits = {} THEN None
        ELSE Some(analyzers[CHOOSE i \in hits : \A j \in hits : i <= j])

-----------------------------------------------------------------------------
(* File content *)

\* the newline character
NL == [kind |-> "NL"]

\* the text of one line: indentation level, the statement written on it
\* (kind), its identifier (name), its second identifier or import target
\* (arg), the number of leading dots of a relative import (level), the
\* return annotation of a def ("none", "int" or "deep": ret), and whether a compound statement has
\* its body on the same line (inl); impl is the text after "implements" of
\* a Java class line
Ln(ind, kind, name, arg, level, ret, inl) ==
    [kind |-> kind, ind |-> ind, name |-> name, arg |-> arg,
     level |-> level, ret |-> ret, inl |-> inl, impl |-> <<>>]

\* "\n".join(lines): the content whose lines are the given texts; an empty
\* text is an empty line
RECURSIVE JoinLines(_)
JoinLines(ls) ==
    IF Len(ls) = 0 THEN <<>>
    ELSE IF Len(ls) = 1 THEN ls[1]
    ELSE ls[1] \o <<NL>> \o JoinLines(Tail(ls))

\* content.split('\n')
SplitLines(c) == Split(c, NL)

\* the line texts of a list of pieces, an empty line being the record Blank
Blank == [kind |-> "blank", ind |-> 0]

\* line i of lines, as one text
LineAt(lines, i) == IF Len(lines[i]) = 0 THEN Blank ELSE lines[i][1]

-----------------------------------------------------------------------------
(* ast.parse, for the statements the analyzer looks at *)

\* Python line texts:
\*   def    "def <name>()[ -> <ret>]:"  (inl: followed by " pass")
\*   adef   "async def <name>():"       (inl: followed by " pass")
\*   class  "class <name>:"             (inl: followed by " pass")
\*   if     "if x:"                     (inl: followed by " pass")
\*   pass   "pass"
\*   import "import <arg>"
\*   from   "from <level dots><arg> import <name>"
\*   comment "# ..."
\*   guard  "if __name__ == <arg>__main__<arg>:", arg the quote character
\*   bad    "def (:"
\* and, of the Java line texts, "import <arg>;" (jimport), which is an
\* import statement of Python too
Compound == {"def", "adef", "class", "if", "guard"}

\* a statement that opens an indented block
IsHeader(l) == l.kind \in Compound /\ ~l.inl

\* a line the tokenizer drops: empty, or only a comment
IsSkipped(l) == l.kind \in {"blank", "comment"}

Raise(msg) == [raised |-> TRUE, msg |-> msg]

Return(v) == [raised |-> FALSE, value |-> v]

\* The parser, line by line.  stack holds the open blocks, innermost last:
\* the line of the header of each and the indentation of its body (any
\* indentation deeper than the header's); need is the line of a header
\* that still lacks its block (0: none); parent maps the statements seen
\* so far to the line of their enclosing statement (0 is the Module).  The
\* indentation of a line is judged before its statement.
RECURSIVE ParseFrom(_, _, _, _, _)
ParseFrom(lines, i, stack, need, parent) ==
    IF i > Len(lines)
    THEN IF need # 0 THEN Raise("expected an indented block")
         ELSE Return(parent)
    ELSE LET l   == LineAt(lines, i)
             cur == IF stack = <<>> THEN 0 ELSE stack[Len(stack)].ind
         IN
         IF IsSkipped(l) THEN ParseFrom(lines, i + 1, stack, need, parent)
         ELSE IF l.ind < cur /\ l.ind # 0 /\ \A k \in 1..Len(stack) : stack[k].ind # l.ind
              THEN Raise("unindent does not match any outer indentation level")
         ELSE IF need # 0 /\ l.ind <= cur
              THEN Raise("expected an indented block")
         ELSE IF need = 0 /\ l.ind > cur
              THEN Raise("unexpected indent")
         ELSE IF l.kind \notin Compound \cup {"pass", "import", "from", "jimport"}
              THEN Raise("invalid syntax")
         ELSE LET open == IF need # 0
                          THEN Append(stack, [line |-> need, ind |-> l.ind])
                          ELSE Filter(stack, {k \in 1..Len(stack) : stack[k].ind <= l.ind})
                  up   == IF open = <<>> THEN 0 ELSE open[Len(open)].line
                  par  == [parent EXCEPT ![i] = up]
              IN  ParseFrom(lines, i + 1, open, IF IsHeader(l) THEN i ELSE 0, par)

\* ast.parse(content): the tree, or SyntaxError raised.  A tree is the
\* parent of every statement (by line number; -1 for a line that holds no
\* statement) and the text of every line.
Parse(c) ==
    LET lines == SplitLines(c)
        r     == ParseFrom(lines, 1, <<>>, 0, [i \in 1..Len(lines) |-> -1])
    IN  IF r.raised THEN r
        ELSE Return([parent |-> r.value,
                     stmt   |-> [i \in 1..Len(lines) |-> LineAt(lines, i)]])

\* the statement nodes of a tree
Nodes(t) == {i \in DOMAIN t.parent : t.parent[i] >= 0}

\* node.body of a statement (or of the Module, node 0), in source order
Body(t, node) == SortedSeq({i \in Nodes(t) : t.parent[i] = node})

\* isinstance(node, ast.X)
NodeKind(t, node) == IF node = 0 THEN "Module" ELSE t.stmt[node].kind

-----------------------------------------------------------------------------
(* Records *)

\* a FileAnalysis that is one object for all the calls: a call finds in it
\* what the other call has put there
MutNewAnalysisShared(filepath, language) ==
    IF "analysis" \in DOMAIN other /\ other.pc \in {"walk", "analyzed", "done"}
    THEN [other.analysis EXCEPT !.filepath = filepath, !.language = language]
    ELSE [filepath |-> filepath, language |-> language, imports |-> <<>>,
          functions |-> <<>>, classes |-> <<>>, dependencies |-> <<>>,
          main_purpose |-> <<>>, complexity_score |-> 0,
          package_namespace |-> None, entry_point |-> None]

\* FileAnalysis(filepath, language, [], [], [], [], "", 0.0, None, None)
NewAnalysis(filepath, language) ==
    [filepath |-> filepath, language |-> language, imports |-> <<>>,
     functions |-> <<>>, classes |-> <<>>, dependencies |-> <<>>,
     main_purpose |-> <<>>, complexity_score |-> 0,
     package_namespace |-> None, entry_point |-> None]

\* a call that kept what the walk had collected when it failed
MutCreateErrorAnalysisKeep(filepath, language, error) ==
    [analysis EXCEPT !.main_purpose = <<"Erro na análise: ", error>>]

\* PythonAnalyzer._create_error_analysis
CreateErrorAnalysis(filepath, language, error) ==
    [filepath |-> filepath, language |-> language, imports |-> <<>>,
     functions |-> <<>>, classes |-> <<>>, dependencies |-> <<>>,
     main_purpose |-> <<"Erro na análise: ", error>>, complexity_score |-> 0,
     package_namespace |-> None, entry_point |-> None]

\* every ordering of a finite set: what list(set(xs)) may return, the
\* iteration order of a set of str depending on the interpreter's hash seed
RECURSIVE ListsOfSet(_)
ListsOfSet(S) ==
    IF S = {} THEN {<<>>}
    ELSE UNION {{<<x>> \o rest : rest \in ListsOfSet(S \ {x})} : x \in S}

-----------------------------------------------------------------------------
(* PythonAnalyzer *)

\* ast.unparse(node.returns): the text of the annotation.  An annotation
\* nested deeper than the interpreter's recursion limit ("deep": a chain of
\* several hundred binary operators) parses but makes unparse raise
\* RecursionError.
Unparse(ret) ==
    IF ret = "deep" THEN Raise("maximum recursion depth exceeded")
    ELSE Return(Some(ret))

\* PythonAnalyzer._extract_function_info
ExtractFunctionInfo(t, node) ==
    LET st == t.stmt[node]
        rt == IF st.ret # "none" THEN Unparse(st.ret) ELSE Return(None)
    IN  IF rt.raised THEN rt
        ELSE Return([name |-> st.name,
                     docstring |-> None,
                     parameters |-> <<>>,
                     return_type |-> rt.value,
                     visibility |-> IF StartsWith(st.name, <<"_">>) THEN "private" ELSE "public",
                     complexity |-> "Média",
                     line_number |-> node,
                     annotations |-> <<>>])

\* the FunctionDef statements of a class body, in order
MethodNodes(t, node) ==
    LET b == Body(t, node)
    IN  Filter(b, {i \in 1..Len(b) : NodeKind(t, b[i]) = "def"})

\* PythonAnalyzer._extract_class_info: the methods are the FunctionDef
\* statements directly in the class body; the first one whose extraction
\* raises ends the call.  (The class lines of the model name no base.)
ExtractClassInfo(t, node) ==
    LET ms == MethodNodes(t, node)
        rs == [k \in 1..Len(ms) |-> ExtractFunctionInfo(t, ms[k])]
    IN  IF \E k \in 1..Len(rs) : rs[k].raised
        THEN rs[CHOOSE k \in 1..Len(rs) : rs[k].raised /\ \A j \in 1..(k - 1) : ~rs[j].raised]
        ELSE Return([name |-> t.stmt[node].name,
                     docstring |-> None,
                     methods |-> [k \in 1..Len(rs) |-> rs[k].value],
                     attributes |-> <<>>,
                     inheritance |-> <<>>,
                     interfaces |-> <<>>,
                     visibility |-> "public",
                     is_abstract |-> FALSE,
                     line_number |-> node])

\* a test that takes no function for a method
MutIsMethodNever(t, node) == FALSE

\* PythonAnalyzer._is_method: some ClassDef of the tree has the node in its body
IsMethod(t, node) ==
    \E parent \in Nodes(t) :
        NodeKind(t, parent) = "class" /\ node \in Range(Body(t, parent))

\* the standard_libs set of _extract_dependencies
StandardLibs ==
    { <<"o", "s">>, <<"s", "y", "s">>, <<"j", "s", "o", "n">>,
      <<"d", "a", "t", "e", "t", "i", "m", "e">>,
      <<"c", "o", "l", "l", "e", "c", "t", "i", "o", "n", "s">>,
      <<"r", "e">>, <<"m", "a", "t", "h">>, <<"r", "a", "n", "d", "o", "m">> }

\* PythonAnalyzer._extract_dependencies, up to the final list(set(...)):
\* the list external_deps
ExternalDeps(imports) ==
    LET base == [k \in 1..Len(imports) |-> Split(imports[k], ".")[1]]
    IN  Filter(base, {k \in 1..Len(imports) :
                         base[k] \notin StandardLibs /\ ~StartsWith(base[k], <<"_">>)})

\* an extraction without the set(): the list as collected
MutExtractDependenciesNoSet(imports) == {ExternalDeps(imports)}

\* PythonAnalyzer._extract_dependencies: the lists it may return
ExtractDependencies(imports) == ListsOfSet(Range(ExternalDeps(imports)))

\* a score that leaves the dependencies out
MutCalculateComplexityNoDeps(a) == Len(a.functions) * 3 + Len(a.classes) * 4

\* PythonAnalyzer._calculate_complexity, in halves:
\* functions * 1.5 + classes * 2.0 + dependencies * 0.5
CalculateComplexity(a) ==
    Len(a.functions) * 3 + Len(a.classes) * 4 + Len(a.dependencies) * 1

\* a strip that drops nothing
MutStripNothing(s) == s

\* str.strip(): the blanks and newlines at both ends are dropped
RECURSIVE Strip(_)
Strip(s) ==
    IF s = <<>> THEN s
    ELSE IF Head(s) \in {" ", "\n"} THEN Strip(Tail(s))
    ELSE IF s[Len(s)] \in {" ", "\n"} THEN Strip(SubSeq(s, 1, Len(s) - 1))
    ELSE s

\* line.strip() of a line of the content: of a comment line "#" and its
\* text; the other lines of the model do not start with "#", and their text
\* is not needed
StrippedLine(l) ==
    IF l.kind = "comment" THEN Strip(<<"#">> \o l.arg) ELSE <<>>

\* the lines[:10] of _determine_main_purpose
PurposeWindow == 10

\* PythonAnalyzer._determine_main_purpose
DetermineMainPurpose(a, c) ==
    LET lines == SplitLines(c)
        first == SubSeq(lines, 1, IF Len(lines) < PurposeWindow THEN Len(lines) ELSE PurposeWindow)
        hits  == {i \in 1..Len(first) :
                     LET sl == StrippedLine(LineAt(first, i))
                     IN  StartsWith(sl, <<"#">>) /\ Len(sl) > 5}
    IN  IF hits # {}
        THEN LET i == CHOOSE i \in hits : \A j \in hits : i <= j
             IN  Strip(Tail(StrippedLine(LineAt(first, i))))
        ELSE IF Len(a.classes) > Len(a.functions)
             THEN <<"Definição de classes e estruturas de dados">>
        ELSE IF Len(a.functions) > 0
             THEN <<"Implementação de funções utilitárias">>
        ELSE <<"Configuração ou script auxiliar">>

\* One iteration of the loop of _analyze_ast on the node the walk yields:
\* the record after it, or the exception it raises.
VisitNode(t, a, node) ==
    LET k == NodeKind(t, node) IN
    CASE k \in {"import", "jimport"} ->
            Return([a EXCEPT !.imports = Append(@, t.stmt[node].arg)])
      [] k = "from" ->
            IF t.stmt[node].arg # <<>>
            THEN Return([a EXCEPT !.imports =
                            Append(@, t.stmt[node].arg \o <<".">> \o t.stmt[node].name)])
            ELSE Return(a)
      [] k = "def" ->
            IF ~IsMethod(t, node)
            THEN LET r == ExtractFunctionInfo(t, node)
                 IN  IF r.raised THEN r
                     ELSE Return([a EXCEPT !.functions = Append(@, r.value)])
            ELSE Return(a)
      [] k = "class" ->
            LET r == ExtractClassInfo(t, node)
            IN  IF r.raised THEN r
                ELSE Return([a EXCEPT !.classes = Append(@, r.value)])
      [] OTHER -> Return(a)

-----------------------------------------------------------------------------
(* The characters of a line *)

\* n copies of a text
RECURSIVE Repeat(_, _)
Repeat(s, n) == IF n = 0 THEN <<>> ELSE s \o Repeat(s, n - 1)

\* Line texts of the other two languages:
\*   jsfunc    "function <name>() {}"
\*   jsarrow   "const <name> = () => {}"
\*   jsclass   "class <name> {}", "class <name> extends <arg> {}"
\*   jsimport  "import x from '<arg>'"
\*   jsrequire "const x = require('<arg>')"
\*   jsbare    "import '<arg>'"
\*   package   "package <arg>;"
\*   jimport   "import <arg>;"
\*   jclass    "public [abstract ]class <name>[ extends <arg>][ implements <impl>]{"
\*             (ret = "abstract": with the modifier)
\*   jhead     "public class <name>[ extends <arg>][ implements <impl>]"
\*             (the header alone, its opening brace not on the line)
\*   jbrace    "{"
\*   jmethod   "public void <name>() {}"
\*   jmain     "public static void main(String[] args) {}"
\* the body of a compound Python statement written on its line
InlineBody(l) == IF l.inl THEN <<" ", "p", "a", "s", "s">> ELSE <<>>

\* the return annotation of a def line
Annotation(l) ==
    IF l.ret = "none" THEN <<>>
    ELSE IF l.ret = "deep" THEN <<" ", "-", ">", " ", "a", "|", "a", "|", "a">>
    ELSE <<" ", "-", ">", " ", "i", "n", "t">>

\* the characters of a line, after its indentation
Statement(l) ==
    CASE l.kind = "def"       -> <<"d", "e", "f", " ">> \o l.name \o <<"(", ")">> \o Annotation(l) \o <<":">> \o InlineBody(l)
      [] l.kind = "adef"      -> <<"a", "s", "y", "n", "c", " ", "d", "e", "f", " ">> \o l.name \o <<"(", ")", ":">> \o InlineBody(l)
      [] l.kind = "class"     -> <<"c", "l", "a", "s", "s", " ">> \o l.name \o <<":">> \o InlineBody(l)
      [] l.kind = "if"        -> <<"i", "f", " ", "x", ":">> \o InlineBody(l)
      [] l.kind = "guard"     -> <<"i", "f", " ", "_", "_", "n", "a", "m", "e", "_", "_", " ", "=", "=", " ">> \o l.arg \o <<"_", "_", "m", "a", "i", "n", "_", "_">> \o l.arg \o <<":">> \o InlineBody(l)
      [] l.kind = "pass"      -> <<"p", "a", "s", "s">>
      [] l.kind = "import"    -> <<"i", "m", "p", "o", "r", "t", " ">> \o l.arg
      [] l.kind = "from"      -> <<"f", "r", "o", "m", " ">> \o Repeat(<<".">>, l.level) \o l.arg \o <<" ", "i", "m", "p", "o", "r", "t", " ">> \o l.name
      [] l.kind = "comment"   -> <<"#">> \o l.arg
      [] l.kind = "bad"       -> <<"d", "e", "f", " ", "(", ":">>
      [] l.kind = "jsfunc"    -> <<"f", "u", "n", "c", "t", "i", "o", "n", " ">> \o l.name \o <<"(", ")", " ", "{", "}">>
      [] l.kind = "jsarrow"   -> <<"c", "o", "n", "s", "t", " ">> \o l.name \o <<" ", "=", " ", "(", ")", " ", "=", ">", " ", "{", "}">>
      [] l.kind = "jsclass"   -> <<"c", "l", "a", "s", "s", " ">> \o l.name
                                  \o (IF l.arg = <<>> THEN <<>> ELSE <<" ", "e", "x", "t", "e", "n", "d", "s", " ">> \o l.arg) \o <<" ", "{", "}">>
      [] l.kind = "jsimport"  -> <<"i", "m", "p", "o", "r", "t", " ", "x", " ", "f", "r", "o", "m", " ">> \o <<"'">> \o l.arg \o <<"'">>
      [] l.kind = "jsrequire" -> <<"c", "o", "n", "s", "t", " ", "x", " ", "=", " ", "r", "e", "q", "u", "i", "r", "e", "(">> \o <<"'">> \o l.arg \o <<"'">> \o <<")">>
      [] l.kind = "jsbare"    -> <<"i", "m", "p", "o", "r", "t", " ">> \o <<"'">> \o l.arg \o <<"'">>
      [] l.kind = "package"   -> <<"p", "a", "c", "k", "a", "g", "e", " ">> \o l.arg \o <<";">>
      [] l.kind = "jimport"   -> <<"i", "m", "p", "o", "r", "t", " ">> \o l.arg \o <<";">>
      [] l.kind = "jclass"    -> <<"p", "u", "b", "l", "i", "c", " ">> \o (IF l.ret = "abstract" THEN <<"a", "b", "s", "t", "r", "a", "c", "t", " ">> ELSE <<>>)
                                  \o <<"c", "l", "a", "s", "s", " ">> \o l.name
                                  \o (IF l.arg = <<>> THEN <<>> ELSE <<" ", "e", "x", "t", "e", "n", "d", "s", " ">> \o l.arg)
                                  \o (IF l.impl = <<>> THEN <<" ">> ELSE <<" ", "i", "m", "p", "l", "e", "m", "e", "n", "t", "s", " ">> \o l.impl)
                                  \o <<"{">>
      [] l.kind = "jhead"     -> <<"p", "u", "b", "l", "i", "c", " ", "c", "l", "a", "s", "s", " ">> \o l.name
                                  \o (IF l.arg = <<>> THEN <<>> ELSE <<" ", "e", "x", "t", "e", "n", "d", "s", " ">> \o l.arg)
                                  \o (IF l.impl = <<>> THEN <<>> ELSE <<" ", "i", "m", "p", "l", "e", "m", "e", "n", "t", "s", " ">> \o l.impl)
      [] l.kind = "jbrace"    -> <<"{">>
      [] l.kind = "jmethod"   -> <<"p", "u", "b", "l", "i", "c", " ", "v", "o", "i", "d", " ">> \o l.name \o <<"(", ")", " ", "{", "}">>
      [] l.kind = "jmain"     -> <<"p", "u", "b", "l", "i", "c", " ", "s", "t", "a", "t", "i", "c", " ", "v", "o", "i", "d", " ", "m", "a", "i", "n", "(", "S", "t", "r", "i", "n", "g", "[", "]", " ", "a", "r", "g", "s", ")", " ", "{", "}">>
      [] OTHER                -> <<>>

\* the characters of a line: four blanks per indentation level, then the statement
Text(l) == Repeat(<<" ", " ", " ", " ">>, l.ind) \o Statement(l)

\* needle in haystack, for two str
Contains(haystack, needle) ==
    \E i \in 0..(Len(haystack) - Len(needle)) :
        SubSeq(haystack, i + 1, i + Len(needle)) = needle

\* 'if __name__ == "__main__"' in content (the text holds no newline, so it
\* lies within one line)
HasMainGuard(c) ==
    \E i \in 1..Len(c) :
        c[i] # NL /\ Contains(Text(c[i]), <<"i", "f", " ", "_", "_", "n", "a", "m", "e", "_", "_", " ", "=", "=", " ", "\"", "_", "_", "m", "a", "i", "n", "_", "_", "\"">>)

\* The statements of _analyze_ast after the loop, but for the dependencies
\* (whose order is chosen by the caller among ExtractDependencies)
FinishAst(a, c, deps) ==
    LET a1 == IF HasMainGuard(c) THEN [a EXCEPT !.entry_point = Some("__main__")] ELSE a
        a2 == [a1 EXCEPT !.dependencies = deps]
        a3 == [a2 EXCEPT !.complexity_score = CalculateComplexity(a2)]
    IN  [a3 EXCEPT !.main_purpose = DetermineMainPurpose(a3, c)]

-----------------------------------------------------------------------------
(* The heuristic analyzers: regular expressions over the content *)

\* the concatenation of a list of lists
RECURSIVE Flatten(_)
Flatten(ss) == IF ss = <<>> THEN <<>> ELSE Head(ss) \o Flatten(Tail(ss))

\* re.findall(pattern, content), Groups(l) being the matches of the pattern
\* in the text of line l.  The contents of the model are written in one
\* language, and in such a content no match of a pattern below extends over
\* a newline.
FindAll(c, Groups(_)) ==
    Flatten([i \in 1..Len(c) |-> IF c[i] = NL THEN <<>> ELSE Groups(c[i])])

\* a lookup that returns the last line that contains the identifier
MutFindLineNumberLast(c, identifier) ==
    LET lines == SplitLines(c)
        hits  == {i \in 1..Len(lines) : Contains(Text(LineAt(lines, i)), identifier)}
    IN  IF hits = {} THEN 1 ELSE CHOOSE i \in hits : \A j \in hits : i >= j

\* _find_line_number (JavaScriptAnalyzer and JavaAnalyzer have the same
\* one): the first line that contains the identifier, 1 when none does
FindLineNumber(c, identifier) ==
    LET lines == SplitLines(c)
        hits  == {i \in 1..Len(lines) : Contains(Text(LineAt(lines, i)), identifier)}
    IN  IF hits = {} THEN 1 ELSE CHOOSE i \in hits : \A j \in hits : i <= j

\* import_patterns[k] of _analyze_js_content on a line
JsImportGroups(k, l) ==
    CASE k = 1 /\ l.kind = "jsimport"  -> <<l.arg>>
      [] k = 2 /\ l.kind = "jsrequire" -> <<l.arg>>
      [] k = 3 /\ l.kind = "jsbare"    -> <<l.arg>>
      [] OTHER -> <<>>

\* func_patterns[k] of _analyze_js_content on a line (no line of the model
\* is written as an object property, the form of patterns 3 and 4)
JsFuncGroups(k, l) ==
    CASE k = 1 /\ l.kind = "jsfunc"  -> <<l.name>>
      [] k = 2 /\ l.kind = "jsarrow" -> <<l.name>>
      [] OTHER -> <<>>

\* class_pattern of _analyze_js_content on a line: (name, base)
JsClassGroups(l) ==
    CASE l.kind \in {"jsclass", "jclass"} -> << <<l.name, l.arg>> >>
      [] l.kind = "class"                 -> << <<l.name, <<>> >> >>
      [] OTHER -> <<>>

\* the FunctionInfo of a heuristic analyzer
HeuristicFunction(c, name, return_type) ==
    [name |-> name, docstring |-> None, parameters |-> <<>>,
     return_type |-> return_type, visibility |-> "public", complexity |-> "Média",
     line_number |-> FindLineNumber(c, name), annotations |-> <<>>]

\* a ClassInfo whose is_abstract is the modifier of the class's own
\* declaration
MutHeuristicClassOwnModifier(c, name, base, interfaces, is_abstract) ==
    [name |-> name, docstring |-> None, methods |-> <<>>, attributes |-> <<>>,
     inheritance |-> IF base # <<>> THEN <<base>> ELSE <<>>,
     interfaces |-> interfaces, visibility |-> "public",
     is_abstract |-> \E i \in 1..Len(c) :
                        c[i] # NL /\ c[i].kind = "jclass" /\ c[i].name = name /\ c[i].ret = "abstract",
     line_number |-> FindLineNumber(c, name)]

\* the ClassInfo of a heuristic analyzer
HeuristicClass(c, name, base, interfaces, is_abstract) ==
    [name |-> name, docstring |-> None, methods |-> <<>>, attributes |-> <<>>,
     inheritance |-> IF base # <<>> THEN <<base>> ELSE <<>>,
     interfaces |-> interfaces, visibility |-> "public", is_abstract |-> is_abstract,
     line_number |-> FindLineNumber(c, name)]

\* an extraction that takes only the targets beginning with "." for local
MutJsExternalDepsKeepAbsolute(imports) ==
    LET keep == {k \in 1..Len(imports) : ~StartsWith(imports[k], <<".">>)}
    IN  Filter([k \in 1..Len(imports) |-> Split(imports[k], "/")[1]], keep)

\* JavaScriptAnalyzer._extract_js_dependencies, up to the final list(set(...))
JsExternalDeps(imports) ==
    LET keep == {k \in 1..Len(imports) :
                    ~StartsWith(imports[k], <<".">>) /\ ~StartsWith(imports[k], <<"/">>)}
    IN  Filter([k \in 1..Len(imports) |-> Split(imports[k], "/")[1]], keep)

\* JavaScriptAnalyzer._extract_js_dependencies: the lists it may return
ExtractJsDependencies(imports) == ListsOfSet(Range(JsExternalDeps(imports)))

\* JavaScriptAnalyzer._determine_js_purpose: none of the marker texts
\* ("export default", "module.exports", "React", "Component", "express",
\* "app.listen") is written on a line of the model unless an identifier
\* spells it
DetermineJsPurpose(c) ==
    LET In(text) == \E i \in 1..Len(c) : c[i] # NL /\ Contains(Text(c[i]), text)
    IN  IF In(<<"e", "x", "p", "o", "r", "t", " ", "d", "e", "f", "a", "u", "l", "t">>) \/ In(<<"m", "o", "d", "u", "l", "e", ".", "e", "x", "p", "o", "r", "t", "s">>) THEN <<"Módulo para exportação">>
        ELSE IF In(<<"R", "e", "a", "c", "t">>) \/ In(<<"C", "o", "m", "p", "o", "n", "e", "n", "t">>) THEN <<"Componente React">>
        ELSE IF In(<<"e", "x", "p", "r", "e", "s", "s">>) \/ In(<<"a", "p", "p", ".", "l", "i", "s", "t", "e", "n">>) THEN <<"Servidor/API">>
        ELSE <<"Script JavaScript">>

\* the score of _analyze_js_content, in halves:
\* functions * 1.5 + classes * 2.0
JsComplexity(a) == Len(a.functions) * 3 + Len(a.classes) * 4

\* JavaScriptAnalyzer._analyze_js_content, but for the dependencies (whose
\* order is chosen by the caller among ExtractJsDependencies)
AnalyzeJsContent(c, a, deps) ==
    LET imports == Flatten([k \in 1..3 |-> FindAll(c, LAMBDA l : JsImportGroups(k, l))])
        names   == Flatten([k \in 1..4 |-> FindAll(c, LAMBDA l : JsFuncGroups(k, l))])
        cls     == FindAll(c, JsClassGroups)
        a1 == [a EXCEPT !.imports = @ \o imports,
                        !.functions = @ \o [k \in 1..Len(names) |->
                                               HeuristicFunction(c, names[k], None)],
                        !.classes = @ \o [k \in 1..Len(cls) |->
                                             HeuristicClass(c, cls[k][1], cls[k][2], <<>>, FALSE)]]
        a2 == [a1 EXCEPT !.dependencies = deps]
        a3 == [a2 EXCEPT !.complexity_score = JsComplexity(a2)]
    IN  [a3 EXCEPT !.main_purpose = DetermineJsPurpose(c)]

\* the imports _analyze_js_content hands to _extract_js_dependencies
JsImports(c) == Flatten([k \in 1..3 |-> FindAll(c, LAMBDA l : JsImportGroups(k, l))])

\* JavaScriptAnalyzer.analyze: the language tag
JsLanguage(filepath) ==
    IF EndsWith(filepath, <<".", "t", "s">>) \/ EndsWith(filepath, <<".", "t", "s", "x">>)
    THEN "TypeScript" ELSE "JavaScript"

\* the package pattern of _analyze_java_content on a line
JavaPackageGroups(l) == IF l.kind = "package" THEN <<l.arg>> ELSE <<>>

\* the import pattern of _analyze_java_content on a line
JavaImportGroups(l) == IF l.kind = "jimport" THEN <<l.arg>> ELSE <<>>

\* class_pattern of _analyze_java_content on a line: (name, base, interfaces)
JavaClassGroups(l) ==
    CASE l.kind = "jclass"  -> << <<l.name, l.arg, l.impl>> >>
      [] l.kind = "jsclass" -> << <<l.name, l.arg, <<>> >> >>
      [] l.kind = "class"   -> << <<l.name, <<>>, <<>> >> >>
      [] OTHER -> <<>>

\* the characters of a content, the newline being "\n"
Chars(c) == Flatten([i \in 1..Len(c) |-> IF c[i] = NL THEN <<"\n">> ELSE Text(c[i])])

\* the longest prefix of a text that holds no "{": what [^{]+ takes
UpToBrace(s) ==
    LET stops == {i \in 1..Len(s) : s[i] = "{"}
    IN  IF stops = {} THEN s
        ELSE SubSeq(s, 1, (CHOOSE i \in stops : \A j \in stops : i <= j) - 1)

\* re.findall(class_pattern, content) of _analyze_java_content, from item i
\* of the content on.  The interface group [^{]+ of a header whose brace is
\* not on its line runs over the following lines, to the first "{" or to
\* the end of the content, and the search resumes after the line of that
\* "{" (in a line of the model nothing follows the "{" that the pattern
\* could match).
RECURSIVE JavaClassMatchesFrom(_, _)
JavaClassMatchesFrom(c, i) ==
    IF i > Len(c) THEN <<>>
    ELSE IF c[i] = NL THEN JavaClassMatchesFrom(c, i + 1)
    ELSE IF c[i].kind = "jhead" /\ c[i].impl # <<>>
         THEN LET rest   == SubSeq(c, i + 1, Len(c))
                  braces == {j \in (i + 1)..Len(c) : c[j] # NL /\ Contains(Text(c[j]), <<"{">>)}
                  next   == IF braces = {} THEN Len(c) + 1
                            ELSE (CHOOSE j \in braces : \A k \in braces : j <= k) + 1
              IN  << <<c[i].name, c[i].arg, c[i].impl \o UpToBrace(Chars(rest))>> >>
                      \o JavaClassMatchesFrom(c, next)
    ELSE IF c[i].kind = "jhead"
         THEN << <<c[i].name, c[i].arg, <<>> >> >> \o JavaClassMatchesFrom(c, i + 1)
    ELSE JavaClassGroups(c[i]) \o JavaClassMatchesFrom(c, i + 1)

\* re.findall(class_pattern, content) of _analyze_java_content
JavaClassMatches(c) == JavaClassMatchesFrom(c, 1)

\* method_pattern of _analyze_java_content on a line: (return type, name)
JavaMethodGroups(l) ==
    CASE l.kind = "jmethod"          -> << <<"void", l.name>> >>
      [] l.kind = "jmain"            -> << <<"void", <<"m", "a", "i", "n">>>> >>
      [] l.kind \in {"def", "adef"}  -> << <<"def", l.name>> >>
      [] l.kind = "jsfunc"           -> << <<"function", l.name>> >>
      [] OTHER -> <<>>

\* an extraction that takes only the targets beginning with "java." for
\* the platform's
MutJavaExternalDepsNoJavax(imports) ==
    LET keep == {k \in 1..Len(imports) : ~StartsWith(imports[k], <<"j", "a", "v", "a", ".">>)}
    IN  Filter([k \in 1..Len(imports) |-> Split(imports[k], ".")[1]], keep)

\* JavaAnalyzer._extract_java_dependencies, up to the final list(set(...))
JavaExternalDeps(imports) ==
    LET keep == {k \in 1..Len(imports) :
                    ~StartsWith(imports[k], <<"j", "a", "v", "a", ".">>) /\ ~StartsWith(imports[k], <<"j", "a", "v", "a", "x", ".">>)}
    IN  Filter([k \in 1..Len(imports) |-> Split(imports[k], ".")[1]], keep)

\* JavaAnalyzer._extract_java_dependencies: the lists it may return
ExtractJavaDependencies(imports) == ListsOfSet(Range(JavaExternalDeps(imports)))

\* a purpose that looks at the class names before the entry point
MutDetermineJavaPurposeNamesFirst(c, a) ==
    LET Named(text) == \E k \in 1..Len(a.classes) : Contains(a.classes[k].name, text)
    IN  IF Named(<<"T", "e", "s", "t">>) THEN <<"Testes unitários">>
        ELSE IF Named(<<"C", "o", "n", "t", "r", "o", "l", "l", "e", "r">>) THEN <<"Controlador web">>
        ELSE IF Named(<<"S", "e", "r", "v", "i", "c", "e">>) THEN <<"Serviço de negócio">>
        ELSE IF a.entry_point = Some("main") THEN <<"Aplicação principal">>
        ELSE <<"Classe de domínio">>

\* JavaAnalyzer._determine_java_purpose
DetermineJavaPurpose(c, a) ==
    LET Named(text) == \E k \in 1..Len(a.classes) : Contains(a.classes[k].name, text)
    IN  IF a.entry_point = Some("main") THEN <<"Aplicação principal">>
        ELSE IF Named(<<"T", "e", "s", "t">>) THEN <<"Testes unitários">>
        ELSE IF Named(<<"C", "o", "n", "t", "r", "o", "l", "l", "e", "r">>) THEN <<"Controlador web">>
        ELSE IF Named(<<"S", "e", "r", "v", "i", "c", "e">>) THEN <<"Serviço de negócio">>
        ELSE <<"Classe de domínio">>

\* a score that leaves the classes out
MutJavaComplexityNoClasses(a) == Len(a.functions) * 3

\* the score of _analyze_java_content, in halves:
\* functions * 1.5 + classes * 2.0
JavaComplexity(a) == Len(a.functions) * 3 + Len(a.classes) * 4

\* the imports _analyze_java_content hands to _extract_java_dependencies
JavaImports(c) == FindAll(c, JavaImportGroups)

\* JavaAnalyzer._analyze_java_content, but for the dependencies (whose order
\* is chosen by the caller among ExtractJavaDependencies)
AnalyzeJavaContent(c, a, deps) ==
    LET In(text) == \E i \in 1..Len(c) : c[i] # NL /\ Contains(Text(c[i]), text)
        pkg  == FindAll(c, JavaPackageGroups)
        cls  == JavaClassMatches(c)
        ms   == FindAll(c, JavaMethodGroups)
        keep == {k \in 1..Len(ms) :
                    ms[k][2] \notin {<<"c", "l", "a", "s", "s">>, <<"i", "f">>, <<"f", "o", "r">>, <<"w", "h", "i", "l", "e">>}}
        a1 == [a EXCEPT !.package_namespace = IF pkg # <<>> THEN Some(pkg[1]) ELSE @,
                        !.imports = JavaImports(c),
                        !.classes = @ \o [k \in 1..Len(cls) |->
                            HeuristicClass(c, cls[k][1], cls[k][2],
                                IF cls[k][3] # <<>>
                                THEN LET parts == Split(cls[k][3], ",")
                                     IN  [j \in 1..Len(parts) |-> Strip(parts[j])]
                                ELSE <<>>,
                                In(<<"a", "b", "s", "t", "r", "a", "c", "t">>))],
                        !.functions = @ \o Filter([k \in 1..Len(ms) |->
                            HeuristicFunction(c, ms[k][2], Some(ms[k][1]))], keep)]
        a2 == IF In(<<"p", "u", "b", "l", "i", "c", " ", "s", "t", "a", "t", "i", "c", " ", "v", "o", "i", "d", " ", "m", "a", "i", "n">>)
              THEN [a1 EXCEPT !.entry_point = Some("main")] ELSE a1
        a3 == [a2 EXCEPT !.dependencies = deps]
        a4 == [a3 EXCEPT !.complexity_score = JavaComplexity(a3)]
    IN  [a4 EXCEPT !.main_purpose = DetermineJavaPurpose(c, a4)]

-----------------------------------------------------------------------------
(* MultiLanguageCodeAnalyzer *)

\* a conversion that loses the annotations
MutFunctionToDictShort(func) ==
    [name |-> func.name, docstring |-> func.docstring, parameters |-> func.parameters,
     return_type |-> func.return_type, visibility |-> func.visibility,
     complexity |-> func.complexity, line_number |-> func.line_number]

\* MultiLanguageCodeAnalyzer._function_to_dict
FunctionToDict(func) ==
    [name |-> func.name,
     docstring |-> func.docstring,
     parameters |-> func.parameters,
     return_type |-> func.return_type,
     visibility |-> func.visibility,
     complexity |-> func.complexity,
     line_number |-> func.line_number,
     annotations |-> func.annotations]

\* MultiLanguageCodeAnalyzer._class_to_dict
ClassToDict(cls) ==
    [name |-> cls.name,
     docstring |-> cls.docstring,
     methods |-> [k \in 1..Len(cls.methods) |-> FunctionToDict(cls.methods[k])],
     attributes |-> cls.attributes,
     inheritance |-> cls.inheritance,
     interfaces |-> cls.interfaces,
     visibility |-> cls.visibility,
     is_abstract |-> cls.is_abstract,
     line_number |-> cls.line_number]

\* str(n) of a count
Digits == <<"0", "1", "2", "3", "4", "5", "6", "7", "8", "9">>

RECURSIVE IntToStr(_)
IntToStr(n) == IF n < 10 THEN <<Digits[n + 1]>> ELSE IntToStr(n \div 10) \o <<Digits[(n % 10) + 1]>>

\* sep.join(parts) for a list of texts
RECURSIVE JoinWith(_, _)
JoinWith(sep, parts) ==
    IF parts = <<>> THEN <<>>
    ELSE IF Len(parts) = 1 THEN parts[1]
    ELSE parts[1] \o sep \o JoinWith(sep, Tail(parts))

\* the dependencies[:3] of _generate_summary
SummaryDeps == 3

\* a summary that counts every dependency as remaining
MutGenerateSummaryCountsAll(a) ==
    LET nd    == Len(a.dependencies)
        top   == SubSeq(a.dependencies, 1, IF nd < 3 THEN nd ELSE 3)
        deps  == JoinWith(<<", ">>, top)
                 \o (IF nd > 3 THEN <<" e mais ">> \o IntToStr(nd) ELSE <<>>)
        parts == << <<"Arquivo ", a.language>> >>
                 \o (IF a.classes # <<>>
                     THEN << IntToStr(Len(a.classes)) \o <<" classe(s)">> >> ELSE <<>>)
                 \o (IF a.functions # <<>>
                     THEN << IntToStr(Len(a.functions)) \o <<" função(ões)">> >> ELSE <<>>)
                 \o (IF a.dependencies # <<>>
                     THEN << <<"Dependências: ">> \o deps >> ELSE <<>>)
    IN  JoinWith(<<". ">>, parts)

\* MultiLanguageCodeAnalyzer._generate_summary; the text is the list of its
\* pieces (a literal, the language tag, a digit or a character)
GenerateSummary(a) ==
    LET nd    == Len(a.dependencies)
        top   == SubSeq(a.dependencies, 1, IF nd < SummaryDeps THEN nd ELSE SummaryDeps)
        deps  == JoinWith(<<", ">>, top)
                 \o (IF nd > SummaryDeps
                     THEN <<" e mais ">> \o IntToStr(nd - SummaryDeps) ELSE <<>>)
        parts == (IF a.language # "" THEN << <<"Arquivo ", a.language>> >> ELSE <<>>)
                 \o (IF a.classes # <<>>
                     THEN << IntToStr(Len(a.classes)) \o <<" classe(s)">> >> ELSE <<>>)
                 \o (IF a.functions # <<>>
                     THEN << IntToStr(Len(a.functions)) \o <<" função(ões)">> >> ELSE <<>>)
                 \o (IF a.dependencies # <<>>
                     THEN << <<"Dependências: ">> \o deps >> ELSE <<>>)
    IN  IF parts # <<>> THEN JoinWith(<<". ">>, parts) ELSE <<"Análise básica concluída">>

\* the extensions of all the analyzers of a list, in order
SupportedLanguages(analyzers) ==
    Flatten([k \in 1..Len(analyzers) |-> get_file_extensions(analyzers[k])])

\* the mapping _run returns after a successful analysis
SuccessMapping(a, c, analyzers) ==
    [filepath |-> a.filepath,
     language |-> a.language,
     package_namespace |-> a.package_namespace,
     entry_point |-> a.entry_point,
     imports |-> a.imports,
     functions |-> [k \in 1..Len(a.functions) |-> FunctionToDict(a.functions[k])],
     classes |-> [k \in 1..Len(a.classes) |-> ClassToDict(a.classes[k])],
     dependencies |-> a.dependencies,
     main_purpose |-> a.main_purpose,
     complexity_score |-> a.complexity_score,
     total_lines |-> Len(SplitLines(c)),
     summary |-> GenerateSummary(a),
     supported_languages |-> SupportedLanguages(analyzers)]

\* the mapping _run returns when no analyzer owns the extension
UnsupportedMapping(ext) ==
    [error |-> <<"Linguagem não suportada para extensão ", ext>>]

\* a call whose exceptions reach the caller
MutExceptMappingUncaught(path, e) == [raised |-> e.msg]

\* the except clause of _run
ExceptMapping(path, e) ==
    [error |-> <<"Erro ao analisar ", path, ": ", e.msg>>]

\* open(file_path, 'r', encoding='utf-8') and file.read(): the text, or the
\* OSError or UnicodeDecodeError raised
OpenAndRead(d) ==
    CASE d.status = "ok"        -> Return(d.content)
      [] d.status = "missing"   -> Raise("[Errno 2] No such file or directory")
      [] d.status = "denied"    -> Raise("[Errno 13] Permission denied")
      [] d.status = "directory" -> Raise("[Errno 21] Is a directory")
      [] d.status = "badutf8"   -> Raise("'utf-8' codec can't decode byte")

-----------------------------------------------------------------------------
(* The calls, step by step *)

NoTree == [parent |-> <<>>, stmt |-> <<>>]

NoAnalysis == NewAnalysis(<<>>, "")

NoResult == [pending |-> TRUE]

\* a call that opens the file before it looks at the analyzer
MutDetectReadsFirst ==
    /\ pc = "start"
    /\ run_analyzers' = Analyzers
    /\ file_ext' = Lower(PathSuffix(file_path))
    /\ analyzer' = GetAnalyzerForExtension(file_ext', run_analyzers')
    /\ result' = result
    /\ pc' = "read"
    /\ UNCHANGED <<create_crew, other, file_path, disk, content, tree, todo, analysis>>

\* _run, to the selection of the analyzer
Detect ==
    /\ pc = "start"
    /\ run_analyzers' = Analyzers
    /\ file_ext' = Lower(PathSuffix(file_path))
    /\ analyzer' = GetAnalyzerForExtension(file_ext', run_analyzers')
    /\ IF analyzer' = None
       THEN /\ result' = UnsupportedMapping(file_ext')
            /\ pc' = "done"
       ELSE /\ result' = result
            /\ pc' = "read"
    /\ UNCHANGED <<create_crew, other, file_path, disk, content, tree, todo, analysis>>

\* _run: the file is opened and read
ReadFile ==
    /\ pc = "read"
    /\ LET r == OpenAndRead(disk)
       IN  IF r.raised
           THEN /\ result' = ExceptMapping(file_path, r)
                /\ pc' = "done"
                /\ content' = content
           ELSE /\ content' = r.value
                /\ pc' = "analyze"
                /\ result' = result
    /\ UNCHANGED <<create_crew, other, run_analyzers, file_path, disk, file_ext, analyzer, tree, todo, analysis>>

\* PythonAnalyzer.analyze, to the call of _analyze_ast
PyParse ==
    /\ pc = "analyze"
    /\ analyzer = Some("PythonAnalyzer")
    /\ LET r == Parse(content)
       IN  IF r.raised
           THEN /\ analysis' = CreateErrorAnalysis(file_path, "Python", r.msg)
                /\ pc' = "analyzed"
                /\ UNCHANGED <<tree, todo>>
           ELSE /\ tree' = r.value
                /\ analysis' = NewAnalysis(file_path, "Python")
                /\ todo' = <<0>>
                /\ pc' = "walk"
    /\ UNCHANGED <<create_crew, other, run_analyzers, file_path, disk, file_ext, analyzer, content, result>>

\* one iteration of "for node in ast.walk(tree)": the walk takes the first
\* node of its deque and adds the node's children at the end
WalkStep ==
    /\ pc = "walk"
    /\ todo # <<>>
    /\ LET node == Head(todo)
           r    == VisitNode(tree, analysis, node)
       IN  IF r.raised
           THEN /\ analysis' = CreateErrorAnalysis(file_path, "Python", r.msg)
                /\ pc' = "analyzed"
                /\ todo' = <<>>
           ELSE /\ analysis' = r.value
                /\ todo' = Tail(todo) \o Body(tree, node)
                /\ pc' = pc
    /\ UNCHANGED <<create_crew, other, run_analyzers, file_path, disk, file_ext, analyzer, content, tree, result>>

\* _analyze_ast after the loop, and the return of analyze
PyFinish ==
    /\ pc = "walk"
    /\ todo = <<>>
    /\ \E deps \in ExtractDependencies(analysis.imports) :
          analysis' = FinishAst(analysis, content, deps)
    /\ pc' = "analyzed"
    /\ UNCHANGED <<create_crew, other, run_analyzers, file_path, disk, file_ext, analyzer, content, tree, todo, result>>

\* JavaScriptAnalyzer.analyze
JsAnalyze ==
    /\ pc = "analyze"
    /\ analyzer = Some("JavaScriptAnalyzer")
    /\ \E deps \in ExtractJsDependencies(JsImports(content)) :
          analysis' = AnalyzeJsContent(content, NewAnalysis(file_path, JsLanguage(file_path)), deps)
    /\ pc' = "analyzed"
    /\ UNCHANGED <<create_crew, other, run_analyzers, file_path, disk, file_ext, analyzer, content, tree, todo, result>>

\* JavaAnalyzer.analyze
JavaAnalyze ==
    /\ pc = "analyze"
    /\ analyzer = Some("JavaAnalyzer")
    /\ \E deps \in ExtractJavaDependencies(JavaImports(content)) :
          analysis' = AnalyzeJavaContent(content, NewAnalysis(file_path, "Java"), deps)
    /\ pc' = "analyzed"
    /\ UNCHANGED <<create_crew, other, run_analyzers, file_path, disk, file_ext, analyzer, content, tree, todo, result>>

\* _run: the result mapping is built and returned
Assemble ==
    /\ pc = "analyzed"
    /\ result' = SuccessMapping(analysis, content, run_analyzers)
    /\ pc' = "done"
    /\ UNCHANGED <<create_crew, other, run_analyzers, file_path, disk, file_ext, analyzer, content, tree, todo, analysis>>

-----------------------------------------------------------------------------
(* Inputs *)

\* every list of at most n elements of S
RECURSIVE SeqsUpTo(_, _)
SeqsUpTo(S, n) ==
    IF n = 0 THEN {<<>>}
    ELSE LET shorter == SeqsUpTo(S, n - 1)
         IN  shorter \cup {Append(s, x) : s \in {t \in shorter : Len(t) = n - 1}, x \in S}

\* the contents whose lines are lists of at most n texts of S, with and
\* without a newline after the last line
ContentsOf(S, n) ==
    LET joined == {JoinLines([k \in 1..Len(ls) |-> <<ls[k]>>]) : ls \in SeqsUpTo(S, n)}
    IN  joined \cup {c \o <<NL>> : c \in joined}

\* the paths handed to _run
Paths ==
    { <<"a", ".", "p", "y">>, <<"a", ".", "P", "Y">>, <<"a", ".", "j", "s">>, <<"a", ".", "t", "s">>, <<"a", ".", "T", "S">>, <<"a", ".", "j", "s", "x">>, <<"a", ".", "t", "s", "x">>,
      <<"a", ".", "j", "a", "v", "a">>, <<"a", ".", "t", "x", "t">>, <<"a">>, <<".", "p", "y">>, <<"d", ".", "p", "y", "/", "a">>, <<"a", ".">> }

\* Python lines of the files handed to _run
PyLines ==
    { Ln(0, "def", <<"f">>, <<>>, 0, "none", TRUE),
      Ln(0, "def", <<"_", "g">>, <<>>, 0, "int", TRUE),
      Ln(0, "def", <<"h">>, <<>>, 0, "deep", TRUE),
      Ln(0, "class", <<"A">>, <<>>, 0, "none", FALSE),
      Ln(1, "def", <<"m">>, <<>>, 0, "none", TRUE),
      Ln(0, "import", <<>>, <<"r", "e", "q", "u", "e", "s", "t", "s">>, 0, "none", FALSE),
      Ln(0, "from", <<"h", "e", "l", "p", "e", "r">>, <<"u", "t", "i", "l", "s">>, 1, "none", FALSE),
      Ln(0, "bad", <<>>, <<>>, 0, "none", FALSE) }

\* JavaScript lines of the files handed to _run
JsLines ==
    { Ln(0, "jsfunc", <<"f">>, <<>>, 0, "none", FALSE),
      Ln(0, "jsarrow", <<"g">>, <<>>, 0, "none", FALSE),
      Ln(0, "jsclass", <<"A">>, <<"B">>, 0, "none", FALSE),
      Ln(0, "jsimport", <<>>, <<"r", "e", "a", "c", "t">>, 0, "none", FALSE),
      Ln(0, "jsrequire", <<>>, <<".", "/", "l", "o", "c", "a", "l">>, 0, "none", FALSE),
      Ln(0, "jsbare", <<>>, <<"l", "o", "d", "a", "s", "h", "/", "f", "p">>, 0, "none", FALSE) }

\* Java lines of the files handed to _run
JavaLines ==
    { Ln(0, "package", <<>>, <<"c", "o", "m", ".", "a", "c", "m", "e", ".", "a", "p", "p">>, 0, "none", FALSE),
      Ln(0, "jimport", <<>>, <<"j", "a", "v", "a", ".", "u", "t", "i", "l", ".", "L", "i", "s", "t">>, 0, "none", FALSE),
      Ln(0, "jimport", <<>>, <<"o", "r", "g", ".", "a", "c", "m", "e", ".", "F", "o", "o">>, 0, "none", FALSE),
      [Ln(0, "jclass", <<"F", "o", "o">>, <<"B", "a", "s", "e">>, 0, "none", FALSE) EXCEPT !.impl = <<"A", ",", " ", "B", " ">>],
      Ln(0, "jmethod", <<"r", "u", "n">>, <<>>, 0, "none", FALSE),
      Ln(0, "jmain", <<>>, <<>>, 0, "none", FALSE) }

\* the files _run may find at the path
Contents ==
    ContentsOf(PyLines, MaxLines) \cup ContentsOf(JsLines, MaxLines)
        \cup ContentsOf(JavaLines, MaxLines)

\* what open() may find at the path
DiskStates ==
    {[status |-> "ok", content |-> c] : c \in Contents}
        \cup {[status |-> st, content |-> <<>>] :
                 st \in {"missing", "denied", "directory", "badutf8"}}

\* Python lines of the sources handed to PythonAnalyzer.analyze: a def
\* with a block, a def, a class and an if, each at every indentation
\* level, with and without an annotation that unparse cannot print
PyStructLines ==
    UNION {{ Ln(ind, "def", <<"f">>, <<>>, 0, "none", FALSE),
             Ln(ind, "def", <<"g">>, <<>>, 0, "none", TRUE),
             Ln(ind, "def", <<"h">>, <<>>, 0, "deep", TRUE),
             Ln(ind, "class", <<"A">>, <<>>, 0, "none", FALSE),
             Ln(ind, "if", <<>>, <<>>, 0, "none", FALSE) } : ind \in 0..MaxIndent}

\* Python import lines of the sources handed to PythonAnalyzer.analyze
PyImportLines ==
    { Ln(0, "import", <<>>, <<"o", "s">>, 0, "none", FALSE),
      Ln(0, "import", <<>>, <<"o", "s", ".", "p", "a", "t", "h">>, 0, "none", FALSE),
      Ln(0, "import", <<>>, <<"r", "e", "q", "u", "e", "s", "t", "s">>, 0, "none", FALSE),
      Ln(0, "from", <<"l", "o", "a", "d", "s">>, <<"j", "s", "o", "n">>, 0, "none", FALSE),
      Ln(0, "from", <<"h", "e", "l", "p", "e", "r">>, <<"u", "t", "i", "l", "s">>, 1, "none", FALSE),
      Ln(0, "from", <<"x">>, <<>>, 1, "none", FALSE),
      Ln(0, "from", <<"y">>, <<"p", "k", "g">>, 2, "none", FALSE) }

\* raw import targets handed to _extract_dependencies
RawImports ==
    { <<"o", "s">>, <<"o", "s", ".", "p", "a", "t", "h">>, <<"r", "e", "q", "u", "e", "s", "t", "s">>, <<".", "u", "t", "i", "l", "s">>, <<"n", "u", "m", "p", "y", ".", "l", "i", "n", "a", "l", "g">>, <<"_", "t", "h", "r", "e", "a", "d">>, <<"j", "s", "o", "n">> }

-----------------------------------------------------------------------------
(* Specifications *)

\* a call of _run
Init ==
    /\ other = NoCall
    /\ create_crew = NoCrew
    /\ run_analyzers = <<>>
    /\ file_path \in Paths
    /\ disk \in DiskStates
    /\ pc = "start"
    /\ file_ext = <<>>
    /\ analyzer = None
    /\ content = <<>>
    /\ tree = NoTree
    /\ todo = <<>>
    /\ analysis = NoAnalysis
    /\ result = NoResult

Next ==
    \/ Detect
    \/ ReadFile
    \/ PyParse
    \/ WalkStep
    \/ PyFinish
    \/ JsAnalyze
    \/ JavaAnalyze
    \/ Assemble

Spec == Init /\ [][Next]_vars

\* a call of PythonAnalyzer.analyze(content, filepath)
PyCall(c) ==
    /\ other = NoCall
    /\ create_crew = NoCrew
    /\ run_analyzers = <<>>
    /\ file_path = <<"a", ".", "p", "y">>
    /\ disk = [status |-> "ok", content |-> c]
    /\ pc = "analyze"
    /\ file_ext = <<".", "p", "y">>
    /\ analyzer = Some("PythonAnalyzer")
    /\ content = c
    /\ tree = NoTree
    /\ todo = <<>>
    /\ analysis = NoAnalysis
    /\ result = NoResult

InitPy == \E c \in ContentsOf(PyStructLines, MaxPyLines) : PyCall(c)

NextPy ==
    \/ PyParse
    \/ WalkStep
    \/ PyFinish

\* PythonAnalyzer.analyze on sources of defs, classes and ifs
SpecPy == InitPy /\ [][NextPy]_vars

InitImp == \E c \in ContentsOf(PyImportLines, MaxImports) : PyCall(c)

\* PythonAnalyzer.analyze on sources of import statements
SpecImp == InitImp /\ [][NextPy]_vars

\* _extract_dependencies(imports) returns
Classify ==
    /\ pc = "classify"
    /\ \E deps \in ExtractDependencies(analysis.imports) :
          analysis' = [analysis EXCEPT !.dependencies = deps]
    /\ pc' = "classified"
    /\ UNCHANGED <<create_crew, other, run_analyzers, file_path, disk, file_ext, analyzer, content, tree, todo, result>>

InitDeps ==
    /\ other = NoCall
    /\ create_crew = NoCrew
    /\ run_analyzers = <<>>
    /\ file_path = <<>>
    /\ disk = [status |-> "missing", content |-> <<>>]
    /\ pc = "classify"
    /\ file_ext = <<>>
    /\ analyzer = Some("PythonAnalyzer")
    /\ content = <<>>
    /\ tree = NoTree
    /\ todo = <<>>
    /\ \E imports \in SeqsUpTo(RawImports, MaxImports) :
          analysis = [NoAnalysis EXCEPT !.imports = imports]
    /\ result = NoResult

NextDeps == Classify

\* PythonAnalyzer._extract_dependencies on lists of raw import targets
SpecDeps == InitDeps /\ [][NextDeps]_vars

\* longest run of empty lines before the first text of a script
MaxPad == 10
\* most statements after the first comment of a script
MaxTail == 2

\* the comment lines that open a script: "#", "#abcd", "#abcde", "# abcd",
\* "#abcdef", "#    " and an indented "#abcdef"
HeadComments ==
    { Ln(0, "comment", <<>>, <<>>, 0, "none", FALSE),
      Ln(0, "comment", <<>>, <<"a", "b", "c", "d">>, 0, "none", FALSE),
      Ln(0, "comment", <<>>, <<"a", "b", "c", "d", "e">>, 0, "none", FALSE),
      Ln(0, "comment", <<>>, <<" ", "a", "b", "c", "d">>, 0, "none", FALSE),
      Ln(0, "comment", <<>>, <<"a", "b", "c", "d", "e", "f">>, 0, "none", FALSE),
      Ln(0, "comment", <<>>, <<" ", " ", " ", " ">>, 0, "none", FALSE),
      Ln(1, "comment", <<>>, <<"a", "b", "c", "d", "e", "f">>, 0, "none", FALSE) }

\* the statements that follow: a def, a class, the guard in double and in
\* single quotes, and a second comment
TailLines ==
    { Ln(0, "def", <<"f">>, <<>>, 0, "none", TRUE),
      Ln(0, "class", <<"A">>, <<>>, 0, "none", TRUE),
      Ln(0, "guard", <<>>, <<"\"">>, 0, "none", TRUE),
      Ln(0, "guard", <<>>, <<"'">>, 0, "none", TRUE),
      Ln(0, "comment", <<>>, <<"s", "e", "c", "o", "n", "d">>, 0, "none", FALSE) }

\* the scripts handed to PythonAnalyzer.analyze: empty lines, then at most
\* one opening comment, then statements
HeadContents ==
    {JoinLines([k \in 1..n |-> <<>>] \o head \o [k \in 1..Len(tail) |-> <<tail[k]>>]) :
        n \in 0..MaxPad,
        head \in {<<>>} \cup {<< <<h>> >> : h \in HeadComments},
        tail \in SeqsUpTo(TailLines, MaxTail)}

InitHead == \E c \in HeadContents : PyCall(c)

\* PythonAnalyzer.analyze on scripts with an opening comment and a guard
SpecHead == InitHead /\ [][NextPy]_vars

\* longest Java source of the Java-analyzer specification, in lines
MaxJavaLines == 4

\* Java lines of the sources handed to JavaAnalyzer.analyze: two package
\* declarations, the class header with its brace on the line and without
\* it, a brace alone, and the main method
JavaHeaderLines ==
    { Ln(0, "package", <<>>, <<"c", "o", "m", ".", "a", "c", "m", "e", ".", "a", "p", "p">>, 0, "none", FALSE),
      Ln(0, "package", <<>>, <<"o", "r", "g", ".", "o", "t", "h", "e", "r">>, 0, "none", FALSE),
      [Ln(0, "jclass", <<"F", "o", "o">>, <<"B", "a", "s", "e">>, 0, "none", FALSE) EXCEPT !.impl = <<"A", ",", " ", "B", " ">>],
      [Ln(0, "jhead", <<"F", "o", "o">>, <<"B", "a", "s", "e">>, 0, "none", FALSE) EXCEPT !.impl = <<"A", ",", " ", "B">>],
      Ln(0, "jbrace", <<>>, <<>>, 0, "none", FALSE),
      Ln(0, "jmain", <<>>, <<>>, 0, "none", FALSE) }

\* a call of JavaAnalyzer.analyze(content, filepath)
JavaCall(c) ==
    /\ other = NoCall
    /\ create_crew = NoCrew
    /\ run_analyzers = <<>>
    /\ file_path = <<"a", ".", "j", "a", "v", "a">>
    /\ disk = [status |-> "ok", content |-> c]
    /\ pc = "analyze"
    /\ file_ext = <<".", "j", "a", "v", "a">>
    /\ analyzer = Some("JavaAnalyzer")
    /\ content = c
    /\ tree = NoTree
    /\ todo = <<>>
    /\ analysis = NoAnalysis
    /\ result = NoResult

InitJava == \E c \in ContentsOf(JavaHeaderLines, MaxJavaLines) : JavaCall(c)

NextJava == JavaAnalyze

\* JavaAnalyzer.analyze on sources of package declarations, class headers
\* and main methods
SpecJava == InitJava /\ [][NextJava]_vars

\* the files of the two-call specification, one at each path
PairInputs ==
    { [path |-> <<"a", ".", "p", "y">>,
       disk |-> [status |-> "ok", content |->
                   <<Ln(0, "import", <<>>, <<"r", "e", "q", "u", "e", "s", "t", "s">>, 0, "none", FALSE), NL,
                     Ln(0, "import", <<>>, <<"n", "u", "m", "p", "y">>, 0, "none", FALSE)>>]],
      [path |-> <<"b", ".", "p", "y">>,
       disk |-> [status |-> "ok", content |->
                   <<Ln(0, "class", <<"A">>, <<>>, 0, "none", FALSE), NL,
                     Ln(1, "def", <<"m">>, <<>>, 0, "none", TRUE)>>]],
      [path |-> <<"c", ".", "p", "y">>,
       disk |-> [status |-> "ok", content |-> <<Ln(0, "bad", <<>>, <<>>, 0, "none", FALSE)>>]],
      [path |-> <<"d", ".", "p", "y">>,
       disk |-> [status |-> "missing", content |-> <<>>]],
      [path |-> <<"a", ".", "j", "s">>,
       disk |-> [status |-> "ok", content |->
                   <<Ln(0, "jsimport", <<>>, <<"r", "e", "a", "c", "t">>, 0, "none", FALSE), NL,
                     Ln(0, "jsbare", <<>>, <<"l", "o", "d", "a", "s", "h", "/", "f", "p">>, 0, "none", FALSE)>>]],
      [path |-> <<"b", ".", "t", "s">>,
       disk |-> [status |-> "ok", content |->
                   <<Ln(0, "jsfunc", <<"f">>, <<>>, 0, "none", FALSE)>>]],
      [path |-> <<"a", ".", "j", "a", "v", "a">>,
       disk |-> [status |-> "ok", content |->
                   <<Ln(0, "jimport", <<>>, <<"o", "r", "g", ".", "a", "c", "m", "e", ".", "F", "o", "o">>, 0, "none", FALSE), NL,
                     Ln(0, "jmethod", <<"r", "u", "n">>, <<>>, 0, "none", FALSE)>>]],
      [path |-> <<"a", ".", "t", "x", "t">>,
       disk |-> [status |-> "ok", content |-> <<>>]] }

\* the locals of the call that is running
Locals ==
    [file_path |-> file_path, disk |-> disk, pc |-> pc, analyzers |-> run_analyzers, file_ext |-> file_ext,
     analyzer |-> analyzer, content |-> content, tree |-> tree, todo |-> todo,
     analysis |-> analysis, result |-> result]

\* a call that has not begun: it has its argument (and the file found at
\* it), and no local yet
NotBegun(i) == [pc |-> "start", file_path |-> i.path, disk |-> i.disk]

\* a local of the call that is resumed
Resumed(field, initial) == IF field \in DOMAIN other THEN other[field] ELSE initial

\* The running call is suspended and the other call runs: the interpreter
\* switches between two threads, or two processes take turns.  Each call
\* keeps its own locals.
Switch ==
    /\ other.pc # "none"
    /\ other' = Locals
    /\ file_path' = other.file_path
    /\ disk' = other.disk
    /\ pc' = other.pc
    /\ run_analyzers' = Resumed("analyzers", <<>>)
    /\ file_ext' = Resumed("file_ext", <<>>)
    /\ analyzer' = Resumed("analyzer", None)
    /\ content' = Resumed("content", <<>>)
    /\ tree' = Resumed("tree", NoTree)
    /\ todo' = Resumed("todo", <<>>)
    /\ analysis' = Resumed("analysis", NoAnalysis)
    /\ result' = Resumed("result", NoResult)
    /\ UNCHANGED create_crew

\* two calls of _run, each on a file (the same file, or two files)
InitTwo ==
    \E i \in PairInputs, j \in PairInputs :
        /\ other = NotBegun(j)
        /\ create_crew = NoCrew
        /\ run_analyzers = <<>>
        /\ file_path = i.path
        /\ disk = i.disk
        /\ pc = "start"
        /\ file_ext = <<>>
        /\ analyzer = None
        /\ content = <<>>
        /\ tree = NoTree
        /\ todo = <<>>
        /\ analysis = NoAnalysis
        /\ result = NoResult

NextTwo ==
    \/ Detect
    \/ ReadFile
    \/ PyParse
    \/ WalkStep
    \/ PyFinish
    \/ JsAnalyze
    \/ JavaAnalyze
    \/ Assemble
    \/ Switch

\* two calls of _run, interleaved in any way
SpecTwo == InitTwo /\ [][NextTwo]_vars

\* the loop of _analyze_ast run to its end: the record, or the exception
RECURSIVE WalkAlone(_, _, _)
WalkAlone(t, a, queue) ==
    IF queue = <<>> THEN Return(a)
    ELSE LET r == VisitNode(t, a, Head(queue))
         IN  IF r.raised THEN r
             ELSE WalkAlone(t, r.value, Tail(queue) \o Body(t, Head(queue)))

\* the FileAnalysis records analyzer.analyze(content, filepath) may return,
\* fresh being the record the analyzer constructs
AnalyzeAlone(an, c, p, fresh) ==
    CASE an = "PythonAnalyzer" ->
           LET r == Parse(c) IN
           IF r.raised THEN {CreateErrorAnalysis(p, "Python", r.msg)}
           ELSE LET w == WalkAlone(r.value, [fresh EXCEPT !.language = "Python"], <<0>>) IN
                IF w.raised THEN {CreateErrorAnalysis(p, "Python", w.msg)}
                ELSE {FinishAst(w.value, c, deps) : deps \in ExtractDependencies(w.value.imports)}
      [] an = "JavaScriptAnalyzer" ->
           {AnalyzeJsContent(c, [fresh EXCEPT !.language = JsLanguage(p)], deps) :
               deps \in ExtractJsDependencies(JsImports(c))}
      [] an = "JavaAnalyzer" ->
           {AnalyzeJavaContent(c, [fresh EXCEPT !.language = "Java"], deps) :
               deps \in ExtractJavaDependencies(JavaImports(c))}

\* the mappings _run(p) may return when it is the only call, d being the
\* file at p
RunAlone(p, d, fresh) ==
    LET ext == Lower(PathSuffix(p))
        an  == GetAnalyzerForExtension(ext, Analyzers)
    IN  IF an = None THEN {UnsupportedMapping(ext)}
        ELSE LET r == OpenAndRead(d)
             IN  IF r.raised THEN {ExceptMapping(p, r)}
                 ELSE {SuccessMapping(a, r.value, Analyzers) :
                          a \in AnalyzeAlone(an[1], r.value, p, fresh)}

\* raw import targets handed to _extract_js_dependencies
JsRawImports ==
    { <<"r", "e", "a", "c", "t">>, <<".", "/", "l", "o", "c", "a", "l">>, <<"/", "a", "b", "s", "/", "x">>, <<"l", "o", "d", "a", "s", "h", "/", "f", "p">>, <<"@", "s", "c", "o", "p", "e", "/", "p", "k", "g">>, <<".", ".", "/", "u", "p">>,
      <<"r", "e", "a", "c", "t", "/", "j", "s", "x", "-", "r", "u", "n", "t", "i", "m", "e">> }

\* raw import targets handed to _extract_java_dependencies
JavaRawImports ==
    { <<"j", "a", "v", "a", ".", "u", "t", "i", "l", ".", "L", "i", "s", "t">>, <<"j", "a", "v", "a", "x", ".", "s", "w", "i", "n", "g", ".", "J", "F", "r", "a", "m", "e">>, <<"o", "r", "g", ".", "a", "c", "m", "e", ".", "F", "o", "o">>, <<"o", "r", "g", ".", "a", "c", "m", "e", ".", "B", "a", "r">>,
      <<"c", "o", "m", ".", "x", ".", "*">>, <<"j", "a", "v", "a", "f", "x", ".", "s", "c", "e", "n", "e", ".", "N", "o", "d", "e">>, <<"s", "t", "a", "t", "i", "c", " ", "j", "a", "v", "a", ".", "u", "t", "i", "l", ".", "C", "o", "l", "l", "e", "c", "t", "i", "o", "n", "s", ".", "s", "o", "r", "t">> }

\* _extract_js_dependencies(imports) returns
ClassifyJs ==
    /\ pc = "classify"
    /\ analyzer = Some("JavaScriptAnalyzer")
    /\ \E deps \in ExtractJsDependencies(analysis.imports) :
          analysis' = [analysis EXCEPT !.dependencies = deps]
    /\ pc' = "classified"
    /\ UNCHANGED <<create_crew, other, run_analyzers, file_path, disk, file_ext, analyzer, content, tree, todo, result>>

\* _extract_java_dependencies(imports) returns
ClassifyJava ==
    /\ pc = "classify"
    /\ analyzer = Some("JavaAnalyzer")
    /\ \E deps \in ExtractJavaDependencies(analysis.imports) :
          analysis' = [analysis EXCEPT !.dependencies = deps]
    /\ pc' = "classified"
    /\ UNCHANGED <<create_crew, other, run_analyzers, file_path, disk, file_ext, analyzer, content, tree, todo, result>>

InitHeuristicDeps ==
    /\ other = NoCall
    /\ create_crew = NoCrew
    /\ run_analyzers = <<>>
    /\ file_path = <<>>
    /\ disk = [status |-> "missing", content |-> <<>>]
    /\ pc = "classify"
    /\ file_ext = <<>>
    /\ content = <<>>
    /\ tree = NoTree
    /\ todo = <<>>
    /\ \/ /\ analyzer = Some("JavaScriptAnalyzer")
          /\ \E imports \in SeqsUpTo(JsRawImports, MaxImports) :
                analysis = [NoAnalysis EXCEPT !.imports = imports]
       \/ /\ analyzer = Some("JavaAnalyzer")
          /\ \E imports \in SeqsUpTo(JavaRawImports, MaxImports) :
                analysis = [NoAnalysis EXCEPT !.imports = imports]
    /\ result = NoResult

NextHeuristicDeps ==
    \/ ClassifyJs
    \/ ClassifyJava

\* the dependency extractors of the heuristic analyzers on lists of raw
\* import targets
SpecHeuristicDeps == InitHeuristicDeps /\ [][NextHeuristicDeps]_vars

\* most import lines of a file of the summary specification
MaxDeps == 5

\* the packages the files of the summary specification import
SummaryPackages ==
    << <<"n", "u", "m", "p", "y">>, <<"f", "l", "a", "s", "k">>, <<"s", "i", "x">>, <<"a", "t", "t", "r", "s">>, <<"y", "a", "m", "l">>, <<"r", "i", "c", "h">> >>

\* the line of a file at the path that imports the package
SummaryImport(path, pkg) ==
    CASE path = <<"a", ".", "p", "y">>   -> Ln(0, "import", <<>>, pkg, 0, "none", FALSE)
      [] path = <<"a", ".", "t", "s">>   -> Ln(0, "jsimport", <<>>, pkg, 0, "none", FALSE)
      [] path = <<"a", ".", "j", "a", "v", "a">> -> Ln(0, "jimport", <<>>, pkg \o <<".", "A", "p", "i">>, 0, "none", FALSE)

\* the lines after the imports: nothing, a function, a class, both
SummaryTails(path) ==
    LET f == CASE path = <<"a", ".", "p", "y">>   -> Ln(0, "def", <<"f">>, <<>>, 0, "none", TRUE)
               [] path = <<"a", ".", "t", "s">>   -> Ln(0, "jsfunc", <<"f">>, <<>>, 0, "none", FALSE)
               [] path = <<"a", ".", "j", "a", "v", "a">> -> Ln(0, "jmethod", <<"r", "u", "n">>, <<>>, 0, "none", FALSE)
        c == CASE path = <<"a", ".", "p", "y">>   -> Ln(0, "class", <<"A">>, <<>>, 0, "none", TRUE)
               [] path = <<"a", ".", "t", "s">>   -> Ln(0, "jsclass", <<"A">>, <<>>, 0, "none", FALSE)
               [] path = <<"a", ".", "j", "a", "v", "a">> -> Ln(0, "jclass", <<"F", "o", "o">>, <<>>, 0, "none", FALSE)
    IN  {<<>>, <<f>>, <<c>>, <<c, f>>, <<c, c, f>>}

\* the files of the summary specification: at most MaxDeps import lines of
\* different packages, then one of the tails
SummaryInputs ==
    LET n == IF MaxDeps < Len(SummaryPackages) THEN MaxDeps ELSE Len(SummaryPackages)
    IN  UNION {{[path |-> p,
                 content |-> LET which == SortedSeq(S)
                                 ls == [k \in 1..Len(which) |-> SummaryImport(p, SummaryPackages[which[k]])] \o t
                             IN  JoinLines([k \in 1..Len(ls) |-> <<ls[k]>>])] :
                   S \in SUBSET (1..n), t \in SummaryTails(p)} :
               p \in {<<"a", ".", "p", "y">>, <<"a", ".", "t", "s">>, <<"a", ".", "j", "a", "v", "a">>}}

InitSummary ==
    /\ other = NoCall
    /\ create_crew = NoCrew
    /\ run_analyzers = <<>>
    /\ \E in \in SummaryInputs :
          /\ file_path = in.path
          /\ disk = [status |-> "ok", content |-> in.content]
    /\ pc = "start"
    /\ file_ext = <<>>
    /\ analyzer = None
    /\ content = <<>>
    /\ tree = NoTree
    /\ todo = <<>>
    /\ analysis = NoAnalysis
    /\ result = NoResult

NextSummary == Next

\* _run on files of the three languages with up to MaxDeps dependencies
SpecSummary == InitSummary /\ [][NextSummary]_vars

\* longest Java source of the class-name specification, in lines
MaxClassLines == 3

\* Java lines of the sources of the class-name specification: classes whose
\* names hold the words of _determine_java_purpose (one holds two of them,
\* one holds "test" in lower case), a class with the abstract modifier and
\* the main method
JavaClassLines ==
    { Ln(0, "jclass", <<"O", "r", "d", "e", "r", "T", "e", "s", "t">>, <<>>, 0, "none", FALSE),
      Ln(0, "jclass", <<"O", "r", "d", "e", "r", "C", "o", "n", "t", "r", "o", "l", "l", "e", "r">>, <<>>, 0, "none", FALSE),
      Ln(0, "jclass", <<"O", "r", "d", "e", "r", "S", "e", "r", "v", "i", "c", "e">>, <<>>, 0, "none", FALSE),
      Ln(0, "jclass", <<"S", "e", "r", "v", "i", "c", "e", "C", "o", "n", "t", "r", "o", "l", "l", "e", "r">>, <<>>, 0, "none", FALSE),
      Ln(0, "jclass", <<"C", "o", "n", "t", "e", "s", "t">>, <<>>, 0, "none", FALSE),
      Ln(0, "jclass", <<"O", "r", "d", "e", "r">>, <<>>, 0, "none", FALSE),
      Ln(0, "jclass", <<"S", "h", "a", "p", "e">>, <<>>, 0, "abstract", FALSE),
      Ln(0, "jmain", <<>>, <<>>, 0, "none", FALSE) }

InitClasses == \E c \in ContentsOf(JavaClassLines, MaxClassLines) : JavaCall(c)

NextClasses == JavaAnalyze

\* JavaAnalyzer.analyze on sources of class declarations and main methods
SpecClasses == InitClasses /\ [][NextClasses]_vars

\* longest list of analyzers handed to _get_analyzer_for_extension
MaxAnalyzers == 3

\* the classes of the analyzers of the lists
AnalyzerClasses ==
    {"PythonAnalyzer", "JavaScriptAnalyzer", "JavaAnalyzer", "TypeScriptAnalyzer", "JvmAnalyzer"}

\* the extensions looked up
LookupExtensions ==
    { <<".", "p", "y">>, <<".", "j", "s">>, <<".", "t", "s">>, <<".", "t", "s", "x">>, <<".", "j", "a", "v", "a">>, <<".", "k", "t">>, <<".", "t", "x", "t">>, <<>> }

\* _get_analyzer_for_extension(extension, analyzers)
Lookup ==
    /\ pc = "lookup"
    /\ analyzer' = GetAnalyzerForExtension(file_ext, run_analyzers)
    /\ pc' = "found"
    /\ UNCHANGED <<create_crew, other, run_analyzers, file_path, disk, file_ext, content, tree, todo, analysis, result>>

InitRegistry ==
    /\ other = NoCall
    /\ create_crew = NoCrew
    /\ run_analyzers \in SeqsUpTo(AnalyzerClasses, MaxAnalyzers)
    /\ file_ext \in LookupExtensions
    /\ file_path = <<>>
    /\ disk = [status |-> "missing", content |-> <<>>]
    /\ pc = "lookup"
    /\ analyzer = None
    /\ content = <<>>
    /\ tree = NoTree
    /\ todo = <<>>
    /\ analysis = NoAnalysis
    /\ result = NoResult

NextRegistry == Lookup

\* _get_analyzer_for_extension on lists of analyzers in any order, with and
\* without analyzers that own the same extension
SpecRegistry == InitRegistry /\ [][NextRegistry]_vars

-----------------------------------------------------------------------------
(* Create_Crew (agents.py) *)

\* most calls of generate_documentation on the instance
MaxCalls == 4

\* the paths handed to generate_documentation
CrewPaths == { <<"a", ".", "p", "y">>, <<"b", ".", "j", "s">>, <<"c", ".", "j", "a", "v", "a">> }

\* the description create_analysis_task gives the analysis task (one piece
\* of text: its first and its last line, the numbered list between them
\* left out)
AnalysisDescription ==
    <<"Analise o arquivo de código fornecido e extraia: [...] Adapte a análise conforme as convenções da linguagem detectada.">>

\* f"\n\n**ARQUIVO PARA ANÁLISE**: {file_path}"
Marker(path) == <<"\n\n**ARQUIVO PARA ANÁLISE**: ", path>>

\* a call that writes the description anew
MutGenerateDocumentationFresh ==
    /\ pc = "idle"
    /\ Len(create_crew.kickoffs) < MaxCalls
    /\ \E path \in CrewPaths :
          /\ file_path' = path
          /\ create_crew' = [create_crew EXCEPT !.description = AnalysisDescription \o Marker(path)]
    /\ result' = NoResult
    /\ pc' = "kickoff"
    /\ UNCHANGED <<other, run_analyzers, disk, file_ext, analyzer, content, tree, todo, analysis>>

\* generate_documentation, to the call of kickoff: the marker of the path
\* is added to the description of the analysis task
GenerateDocumentation ==
    /\ pc = "idle"
    /\ Len(create_crew.kickoffs) < MaxCalls
    /\ \E path \in CrewPaths :
          /\ file_path' = path
          /\ create_crew' = [create_crew EXCEPT !.description = @ \o Marker(path)]
    /\ result' = NoResult
    /\ pc' = "kickoff"
    /\ UNCHANGED <<other, run_analyzers, disk, file_ext, analyzer, content, tree, todo, analysis>>

\* self.crew.kickoff() and the return of generate_documentation: the crew
\* runs its tasks, the analysis task with the description it has now; the
\* run returns the crew's output or raises, and nothing catches
Kickoff ==
    /\ pc = "kickoff"
    /\ create_crew' = [create_crew EXCEPT !.kickoffs =
                          Append(@, [file_path |-> file_path, description |-> create_crew.description])]
    /\ \E raised \in BOOLEAN :
          result' = IF raised THEN [raised |-> "kickoff"]
                    ELSE [status |-> "success", file_analyzed |-> file_path, result |-> "CrewOutput"]
    /\ pc' = "idle"
    /\ UNCHANGED <<other, run_analyzers, file_path, disk, file_ext, analyzer, content, tree, todo, analysis>>

\* Create_Crew(): the tasks are created once
InitCrew ==
    /\ other = NoCall
    /\ create_crew = [description |-> AnalysisDescription, kickoffs |-> <<>>]
    /\ run_analyzers = <<>>
    /\ file_path = <<>>
    /\ disk = [status |-> "missing", content |-> <<>>]
    /\ pc = "idle"
    /\ file_ext = <<>>
    /\ analyzer = None
    /\ content = <<>>
    /\ tree = NoTree
    /\ todo = <<>>
    /\ analysis = NoAnalysis
    /\ result = NoResult

NextCrew ==
    \/ GenerateDocumentation
    \/ Kickoff

\* calls of generate_documentation on one Create_Crew, one after the other
SpecCrew == InitCrew /\ [][NextCrew]_vars

-----------------------------------------------------------------------------
(* Properties *)

\* the analysis is the record _create_error_analysis builds
Degraded(a) == Len(a.main_purpose) = 2 /\ a.main_purpose[1] = "Erro na análise: "

\* C1: once _run has selected the analyzer, .py has the Python analyzer,
\* .js, .ts, .jsx and .tsx the JavaScript analyzer, .java the Java analyzer,
\* and any other extension (the empty one too) has none, the call having
\* returned the unsupported-language error mapping.
C1_Detection ==
    pc # "start" =>
        /\ file_ext = <<".", "p", "y">> => analyzer = Some("PythonAnalyzer")
        /\ file_ext \in {<<".", "j", "s">>, <<".", "t", "s">>, <<".", "j", "s", "x">>, <<".", "t", "s", "x">>}
              => analyzer = Some("JavaScriptAnalyzer")
        /\ file_ext = <<".", "j", "a", "v", "a">> => analyzer = Some("JavaAnalyzer")
        /\ file_ext \notin {<<".", "p", "y">>, <<".", "j", "s">>, <<".", "t", "s">>, <<".", "j", "s", "x">>, <<".", "t", "s", "x">>, <<".", "j", "a", "v", "a">>}
              => /\ analyzer = None
                 /\ pc = "done"
                 /\ result = [error |-> <<"Linguagem não suportada para extensão ", file_ext>>]

\* a call on the path ".py", whose extension is empty, has returned the
\* unsupported-language mapping
C1_Witness ==
    /\ pc = "done"
    /\ file_path = <<".", "p", "y">>
    /\ file_ext = <<>>
    /\ analyzer = None
    /\ DOMAIN result = {"error"}

SuccessKeys ==
    {"filepath", "language", "package_namespace", "entry_point", "imports",
     "functions", "classes", "dependencies", "main_purpose", "complexity_score",
     "total_lines", "summary", "supported_languages"}

FunctionKeys ==
    {"name", "docstring", "parameters", "return_type", "visibility", "complexity",
     "line_number", "annotations"}

ClassKeys ==
    {"name", "docstring", "methods", "attributes", "inheritance", "interfaces",
     "visibility", "is_abstract", "line_number"}

\* C2: _run never raises.  Whatever the path and the file, a call that has
\* ended has returned a mapping (no exception has left it): the mapping
\* whose only key is "error" when no analyzer owns the extension or the file
\* cannot be opened, read or decoded, and the success mapping otherwise; a
\* call that has not ended has returned nothing yet.
C2_NeverRaises ==
    /\ pc \in {"start", "read", "analyze", "walk", "analyzed", "done"}
    /\ pc # "done" => result = NoResult
    /\ pc = "done" =>
          IF analyzer = None \/ disk.status # "ok"
          THEN DOMAIN result = {"error"}
          ELSE DOMAIN result = SuccessKeys

\* a call on a file that is not valid UTF-8 has returned the error mapping
C2_Witness ==
    /\ pc = "done"
    /\ analyzer = Some("PythonAnalyzer")
    /\ disk.status = "badutf8"
    /\ DOMAIN result = {"error"}
    /\ result.error[1] = "Erro ao analisar "

\* C3: a successful result has exactly the 13 keys, each of its function
\* records (top-level, or in the methods of a class) exactly the 8 function
\* keys, each of its class records exactly the 9 class keys.
C3_Keys ==
    (pc = "done" /\ "error" \notin DOMAIN result) =>
        /\ DOMAIN result = SuccessKeys
        /\ \A k \in 1..Len(result.functions) : DOMAIN result.functions[k] = FunctionKeys
        /\ \A k \in 1..Len(result.classes) :
              /\ DOMAIN result.classes[k] = ClassKeys
              /\ \A j \in 1..Len(result.classes[k].methods) :
                    DOMAIN result.classes[k].methods[j] = FunctionKeys

\* a successful result with a class that has a method
C3_Witness ==
    /\ pc = "done"
    /\ "error" \notin DOMAIN result
    /\ \E k \in 1..Len(result.classes) : result.classes[k].methods # <<>>

\* the defs of a tree whose scope is the module: no def or class encloses them
ModuleScopeDefs(t) ==
    LET RECURSIVE Free(_)
        Free(n) == n = 0 \/ (NodeKind(t, n) \notin {"def", "adef", "class"} /\ Free(t.parent[n]))
    IN  {n \in Nodes(t) : NodeKind(t, n) = "def" /\ Free(t.parent[n])}

\* the defs of a tree written directly in a class body
ClassBodyDefs(t) ==
    {n \in Nodes(t) : /\ NodeKind(t, n) = "def"
                      /\ t.parent[n] # 0
                      /\ NodeKind(t, t.parent[n]) = "class"}

\* the sum of the lengths of the methods of a list of classes
RECURSIVE MethodCount(_)
MethodCount(cs) == IF cs = <<>> THEN 0 ELSE Len(Head(cs).methods) + MethodCount(Tail(cs))

\* C4: for a source that parses, the functions of the analysis are as many
\* as the functions declared at module scope, and the methods of its classes
\* together as many as the functions declared directly in class bodies
\* (stated for the analyses that are not the degraded record).
C4_Counts ==
    (pc = "analyzed" /\ ~Degraded(analysis)) =>
        /\ Len(analysis.functions) = Cardinality(ModuleScopeDefs(tree))
        /\ MethodCount(analysis.classes) = Cardinality(ClassBodyDefs(tree))

\* the same, for the methods alone
C4_MethodCount ==
    (pc = "analyzed" /\ ~Degraded(analysis)) =>
        MethodCount(analysis.classes) = Cardinality(ClassBodyDefs(tree))

\* what C5 says of an analysis
MethodsOwned ==
    /\ \A n \in ClassBodyDefs(tree) :
          /\ \A k \in 1..Len(analysis.functions) : analysis.functions[k].line_number # n
          /\ Cardinality({kj \in (1..Len(analysis.classes)) \X (1..Len(content)) :
                             /\ kj[2] <= Len(analysis.classes[kj[1]].methods)
                             /\ analysis.classes[kj[1]].methods[kj[2]].line_number = n}) = 1
          /\ \A k \in 1..Len(analysis.classes) :
                \A j \in 1..Len(analysis.classes[k].methods) :
                    analysis.classes[k].methods[j].line_number = n
                        => analysis.classes[k].line_number = tree.parent[n]
    /\ \A i \in 1..Len(analysis.functions) :
          \A k \in 1..Len(analysis.classes) :
              \A j \in 1..Len(analysis.classes[k].methods) :
                  analysis.functions[i] # analysis.classes[k].methods[j]

C6_Example ==
    (pc = "classified" /\ analysis.imports = <<<<"o", "s">>, <<"r", "e", "q", "u", "e", "s", "t", "s">>, <<".", "u", "t", "i", "l", "s">>>>)
        => analysis.dependencies = <<<<"r", "e", "q", "u", "e", "s", "t", "s">>>>

\* C6, as claimed, in general: the dependencies are exactly the root
\* segments of the imports that are neither standard-library modules nor
\* relative (beginning with ".").
C6_Exact ==
    pc = "classified" =>
        Range(analysis.dependencies) =
            {SubSeq(imp, 1, (CHOOSE n \in 0..Len(imp) :
                                /\ \A i \in 1..n : imp[i] # "."
                                /\ (n = Len(imp) \/ imp[n + 1] = "."))) :
                imp \in {x \in Range(analysis.imports) :
                            /\ x[1] # "."
                            /\ \A lib \in {<<"o", "s">>, <<"s", "y", "s">>, <<"j", "s", "o", "n">>, <<"d", "a", "t", "e", "t", "i", "m", "e">>,
                                           <<"c", "o", "l", "l", "e", "c", "t", "i", "o", "n", "s">>, <<"r", "e">>, <<"m", "a", "t", "h">>, <<"r", "a", "n", "d", "o", "m">>} :
                                  ~(StartsWith(x, lib)
                                    /\ (Len(x) = Len(lib) \/ x[Len(lib) + 1] = "."))}}

\* the import statements of a content that are not relative, as the roots
\* of their modules
AbsoluteImportRoots(c) ==
    {Split(c[i].arg, ".")[1] :
        i \in {j \in 1..Len(c) : /\ c[j] # NL
                                 /\ c[j].kind \in {"import", "from"}
                                 /\ c[j].level = 0}}

\* C7, as claimed: a relative import statement contributes nothing to the
\* dependencies, which hold only roots of non-relative imports that are not
\* standard-library modules.
C7_NoRelative ==
    pc = "analyzed" =>
        Range(analysis.dependencies) \subseteq (AbsoluteImportRoots(content) \ StandardLibs)

\* C8: in every returned analysis the score is 1.5 a function, 2.0 a class
\* and, for the Python analyzer alone, 0.5 a dependency, over the lists of
\* the same record (in halves: 3, 4 and 1); the record and the mapping
\* returned agree.
C8_Score ==
    /\ pc \in {"analyzed", "done"} =>
          analysis.complexity_score =
              3 * Len(analysis.functions) + 4 * Len(analysis.classes)
                  + (IF analysis.language = "Python" THEN 1 ELSE 0) * Len(analysis.dependencies)
    /\ (pc = "done" /\ "error" \notin DOMAIN result) =>
          /\ result.complexity_score = analysis.complexity_score
          /\ Len(result.functions) = Len(analysis.functions)
          /\ Len(result.classes) = Len(analysis.classes)
          /\ result.dependencies = analysis.dependencies
    /\ (pc \in {"analyzed", "done"} /\ Degraded(analysis)) =>
          /\ analysis.complexity_score = 0
          /\ analysis.functions = <<>> /\ analysis.classes = <<>>
          /\ analysis.dependencies = <<>>

\* a Java analysis with a class and a dependency, the dependency not counted
C8_Witness ==
    /\ pc = "done"
    /\ "error" \notin DOMAIN result
    /\ result.language = "Java"
    /\ Len(result.functions) = 0 /\ Len(result.classes) = 1
    /\ Len(result.dependencies) = 1
    /\ result.complexity_score = 4

\* a record with one more function, class or dependency
OneMore(a, field) == [a EXCEPT ![field] = Append(@, a[field][1])]

\* C9: the score of a returned analysis is not negative, and the score of
\* its analyzer rises when the record has one more function or one more
\* class and, for the Python analyzer, one more dependency.
C9_Monotone ==
    pc \in {"analyzed", "done"} =>
        /\ analysis.complexity_score >= 0
        /\ CalculateComplexity(analysis) >= 0
        /\ JsComplexity(analysis) >= 0
        /\ JavaComplexity(analysis) >= 0
        /\ analysis.functions # <<>> =>
              /\ CalculateComplexity(OneMore(analysis, "functions")) > CalculateComplexity(analysis)
              /\ JsComplexity(OneMore(analysis, "functions")) > JsComplexity(analysis)
              /\ JavaComplexity(OneMore(analysis, "functions")) > JavaComplexity(analysis)
        /\ analysis.classes # <<>> =>
              /\ CalculateComplexity(OneMore(analysis, "classes")) > CalculateComplexity(analysis)
              /\ JsComplexity(OneMore(analysis, "classes")) > JsComplexity(analysis)
              /\ JavaComplexity(OneMore(analysis, "classes")) > JavaComplexity(analysis)
        /\ analysis.dependencies # <<>> =>
              CalculateComplexity(OneMore(analysis, "dependencies")) > CalculateComplexity(analysis)

\* a Python analysis with a function and a dependency
C9_Witness ==
    /\ pc = "analyzed"
    /\ analysis.language = "Python"
    /\ analysis.functions # <<>>
    /\ analysis.dependencies # <<>>
    /\ analysis.complexity_score > 0

\* the source does not parse, or has a def whose annotation unparse cannot print
AnalysisFails(c) ==
    \/ Parse(c).raised
    \/ \E i \in 1..Len(c) : c[i] # NL /\ c[i].kind = "def" /\ c[i].ret = "deep"

\* C10: when the parse or a later step of the walk fails, analyze returns
\* the degraded record: language "Python", every list empty, score 0.0,
\* no package and no entry point, and a purpose that is the marker
\* followed by the diagnostic; nothing collected before the failure is kept.
C10_Degraded ==
    (pc = "analyzed" /\ AnalysisFails(content)) =>
        /\ analysis.filepath = file_path
        /\ analysis.language = "Python"
        /\ analysis.imports = <<>>
        /\ analysis.functions = <<>>
        /\ analysis.classes = <<>>
        /\ analysis.dependencies = <<>>
        /\ analysis.complexity_score = 0
        /\ analysis.package_namespace = None
        /\ analysis.entry_point = None
        /\ Len(analysis.main_purpose) = 2
        /\ analysis.main_purpose[1] = "Erro na análise: "
        /\ analysis.main_purpose[2] \in
              {"invalid syntax", "unexpected indent", "expected an indented block",
               "unindent does not match any outer indentation level",
               "maximum recursion depth exceeded"}

\* the walk had collected the function g when the annotation of h made it fail
C10_Witness ==
    /\ pc = "analyzed"
    /\ content = <<Ln(0, "def", <<"g">>, <<>>, 0, "none", TRUE), NL,
                   Ln(0, "def", <<"h">>, <<>>, 0, "deep", TRUE)>>
    /\ analysis.functions = <<>>
    /\ analysis.main_purpose = <<"Erro na análise: ", "maximum recursion depth exceeded">>


\* the content has the direct-execution guard, written with either quote
GuardWritten(c) == \E i \in 1..Len(c) : c[i] # NL /\ c[i].kind = "guard"

\* C11, as claimed: for a content that parses, entry_point is "__main__"
\* when the content has the guard if __name__ == "__main__", in double or in
\* single quotes, and None when it has no guard.
C11_EntryPoint ==
    (pc = "analyzed" /\ ~Parse(content).raised) =>
        analysis.entry_point = IF GuardWritten(content) THEN Some("__main__") ELSE None

\* the comment lines among the first 10 lines of the content whose text
\* after the marker "#" is longer than 5 characters
FiringComments(c) ==
    LET lines == SplitLines(c)
    IN  {i \in 1..Len(lines) :
            /\ i <= 10
            /\ LineAt(lines, i).kind = "comment"
            /\ Len(LineAt(lines, i).arg) > 5}

\* C16, as claimed: the first comment line among the first 10 lines whose
\* text after the marker is longer than 5 characters is the purpose,
\* whatever the functions and classes; when there is none (the comments are
\* of 5 characters or fewer after the marker, or on line 11 or later) the
\* purpose is one of the three structural labels.
C16_Rule1 ==
    (pc = "analyzed" /\ ~Degraded(analysis)) =>
        LET hits == FiringComments(content) IN
        IF hits # {}
        THEN analysis.main_purpose =
                 LineAt(SplitLines(content), CHOOSE i \in hits : \A j \in hits : i <= j).arg
        ELSE analysis.main_purpose \in
                 { <<"Definição de classes e estruturas de dados">>,
                   <<"Implementação de funções utilitárias">>,
                   <<"Configuração ou script auxiliar">> }


\* the lines of a content, without its newlines
LinesOf(c) == Filter(c, {i \in 1..Len(c) : c[i] # NL})

\* the content is made of the pieces of C12: package declarations, the
\* first of them "package com.acme.app;", one class header
\* "public class Foo extends Base implements A, B", a main method, and braces
ExamplePieces(c) ==
    LET ls   == LinesOf(c)
        pkgs == Filter(ls, {i \in 1..Len(ls) : ls[i].kind = "package"})
    IN  /\ pkgs # <<>>
        /\ pkgs[1].arg = <<"c", "o", "m", ".", "a", "c", "m", "e", ".", "a", "p", "p">>
        /\ Cardinality({i \in 1..Len(ls) : ls[i].kind \in {"jclass", "jhead"}}) = 1
        /\ \E i \in 1..Len(ls) : ls[i].kind = "jmain"

\* the class header is followed by the opening brace of the class body, on
\* its line or alone on the next line
HeaderBraced(c) ==
    LET ls == LinesOf(c)
    IN  \A i \in 1..Len(ls) :
            ls[i].kind = "jhead" => (i < Len(ls) /\ ls[i + 1].kind = "jbrace")

\* what C12 says of the analysis
ExampleAnalysis ==
    /\ analysis.package_namespace = Some(<<"c", "o", "m", ".", "a", "c", "m", "e", ".", "a", "p", "p">>)
    /\ Len(analysis.classes) = 1
    /\ analysis.classes[1].name = <<"F", "o", "o">>
    /\ analysis.classes[1].inheritance = << <<"B", "a", "s", "e">> >>
    /\ analysis.classes[1].interfaces = << <<"A">>, <<"B">> >>
    /\ analysis.entry_point = Some("main")

\* C12, as claimed: on a content consisting of the package declaration, the
\* class header and the main signature, the Java analyzer yields the package
\* com.acme.app (the first declared), exactly one class Foo with inheritance
\* [Base] and interfaces [A, B], and the entry point "main".
C12_Example ==
    (pc = "analyzed" /\ ExamplePieces(content)) => ExampleAnalysis

\* C12, amended: the same when the class header is followed by the opening
\* brace of the class body.
C12_BracedExample ==
    (pc = "analyzed" /\ ExamplePieces(content) /\ HeaderBraced(content)) => ExampleAnalysis

\* two package declarations, the class header with its opening brace and the
\* main method, analyzed
C12_Witness ==
    /\ pc = "analyzed"
    /\ ExamplePieces(content)
    /\ HeaderBraced(content)
    /\ Cardinality({i \in 1..Len(content) : content[i] # NL /\ content[i].kind = "package"}) = 2
    /\ ExampleAnalysis


\* C13, as claimed: two runs of _run on the same path, the file being the
\* same, return equal mappings, key by key: the order of the dependencies,
\* the text of the summary and the line numbers included.
C13_Deterministic ==
    (pc = "done" /\ other.pc = "done" /\ other.file_path = file_path /\ other.disk = disk)
        => other.result = result


\* the record a call constructs for itself: every list empty
OwnAnalysis(p) ==
    [filepath |-> p, language |-> "", imports |-> <<>>, functions |-> <<>>,
     classes |-> <<>>, dependencies |-> <<>>, main_purpose |-> <<>>,
     complexity_score |-> 0, package_namespace |-> None, entry_point |-> None]

\* each of two calls on two files that has ended has returned a mapping it
\* returns when it is the only call, and the record a call is populating
\* is the one it made for its own file
ReturnsAsAlone ==
    (other.pc # "none" /\ other.file_path # file_path) =>
        /\ pc = "done" => result \in RunAlone(file_path, disk, OwnAnalysis(file_path))
        /\ other.pc = "done" =>
              other.result \in RunAlone(other.file_path, other.disk, OwnAnalysis(other.file_path))
        /\ pc \in {"walk", "analyzed"} => analysis.filepath = file_path
        /\ other.pc \in {"walk", "analyzed"} => other.analysis.filepath = other.file_path

\* a step that changes what the suspended call holds is the switch from one
\* call to the other, which hands every local back as it was left: no step
\* of a call writes a local or a record of the other call
TouchesOnlyOwn ==
    other' # other =>
        /\ other' = Locals
        /\ file_path' = other.file_path
        /\ disk' = other.disk
        /\ pc' = other.pc
        /\ "analysis" \in DOMAIN other => analysis' = other.analysis
        /\ "result" \in DOMAIN other => result' = other.result

\* C15: no state is shared between invocations of _run.  For every
\* interleaving of two calls on two files, each call returns a mapping it
\* returns when run alone, each works on the FileAnalysis it built, and no
\* step of one call changes a local or a record of the other.
C15_Isolated == []ReturnsAsAlone /\ [][TouchesOnlyOwn]_vars

\* one call has ended with a successful mapping while the other, on another
\* file, was suspended between its analysis and the assembly of its result
C15_Witness ==
    /\ pc = "done"
    /\ "error" \notin DOMAIN result
    /\ result.dependencies # <<>>
    /\ other.pc = "analyzed"
    /\ other.file_path # file_path
    /\ other.analysis.classes # <<>>
    /\ result \in RunAlone(file_path, disk, OwnAnalysis(file_path))


\* C14, as claimed: every function record of a heuristic analyzer has no
\* docstring, no parameters, no return type and no annotations.
C14_Defaults ==
    (pc \in {"analyzed", "done"}
        /\ analyzer \in {Some("JavaScriptAnalyzer"), Some("JavaAnalyzer")}) =>
        \A k \in 1..Len(analysis.functions) :
            /\ analysis.functions[k].docstring = None
            /\ analysis.functions[k].parameters = <<>>
            /\ analysis.functions[k].return_type = None
            /\ analysis.functions[k].annotations = <<>>

\* the first segment of an import target: what precedes its first separator
RootSegment(imp, sep) ==
    LET seps == {i \in 1..Len(imp) : imp[i] = sep}
    IN  IF seps = {} THEN imp
        ELSE SubSeq(imp, 1, (CHOOSE i \in seps : \A j \in seps : i <= j) - 1)

\* C17: the JavaScript/TypeScript dependencies are the first path segments
\* of the import targets that begin neither with "." nor with "/": a local
\* target contributes nothing, any other exactly its package root.
C17_JsRoots ==
    (pc = "classified" /\ analyzer = Some("JavaScriptAnalyzer")) =>
        Range(analysis.dependencies) =
            {RootSegment(imp, "/") :
                imp \in {x \in Range(analysis.imports) : x[1] \notin {".", "/"}}}

\* local targets of both forms and a package with a sub-path, classified
C17_Witness ==
    /\ pc = "classified"
    /\ analyzer = Some("JavaScriptAnalyzer")
    /\ \E k \in 1..Len(analysis.imports) : analysis.imports[k][1] = "/"
    /\ \E k \in 1..Len(analysis.imports) : analysis.imports[k][1] = "."
    /\ analysis.dependencies = << <<"l", "o", "d", "a", "s", "h">> >>

\* C18: the Java dependencies are the first dot segments of the import
\* targets that begin neither with "java." nor with "javax.": a target of
\* the platform's namespaces contributes nothing, any other exactly its
\* first segment.
C18_JavaRoots ==
    (pc = "classified" /\ analyzer = Some("JavaAnalyzer")) =>
        Range(analysis.dependencies) =
            {RootSegment(imp, ".") :
                imp \in {x \in Range(analysis.imports) :
                            /\ SubSeq(x, 1, 5) # <<"j", "a", "v", "a", ".">>
                            /\ SubSeq(x, 1, 6) # <<"j", "a", "v", "a", "x", ".">>}}

\* a java., a javax. and a javafx. target, classified: only javafx is a
\* dependency
C18_Witness ==
    /\ pc = "classified"
    /\ analyzer = Some("JavaAnalyzer")
    /\ Len(analysis.imports) = 3
    /\ \E k \in 1..3 : SubSeq(analysis.imports[k], 1, 5) = <<"j", "a", "v", "a", ".">>
    /\ \E k \in 1..3 : SubSeq(analysis.imports[k], 1, 6) = <<"j", "a", "v", "a", "x", ".">>
    /\ analysis.dependencies = << <<"j", "a", "v", "a", "f", "x">> >>

\* the separator of the import targets of a language
Separator(language) == IF language \in {"JavaScript", "TypeScript"} THEN "/" ELSE "."

\* C19: in every returned analysis, of every analyzer, no dependency occurs
\* twice and every dependency is the root segment of an import of the same
\* record; the mapping returned carries the same two lists.
C19_DepsFromImports ==
    /\ pc \in {"analyzed", "done"} =>
          /\ \A i, k \in 1..Len(analysis.dependencies) :
                analysis.dependencies[i] = analysis.dependencies[k] => i = k
          /\ \A i \in 1..Len(analysis.dependencies) :
                \E k \in 1..Len(analysis.imports) :
                    RootSegment(analysis.imports[k], Separator(analysis.language))
                        = analysis.dependencies[i]
    /\ (pc = "done" /\ "error" \notin DOMAIN result) =>
          /\ result.dependencies = analysis.dependencies
          /\ result.imports = analysis.imports

\* two imports of one root, returned as one dependency
C19_Witness ==
    /\ pc = "done"
    /\ "error" \notin DOMAIN result
    /\ result.language = "Python"
    /\ Len(result.imports) = 2
    /\ result.imports[1] = result.imports[2]
    /\ Len(result.dependencies) = 1
    /\ RootSegment(result.imports[1], ".") = result.dependencies[1]

\* line l of a content declares the function or class of that name
Declares(l, name) ==
    \/ l.kind \in {"jsfunc", "jsarrow", "jmethod", "jsclass", "jclass", "jhead",
                   "def", "adef", "class"} /\ l.name = name
    \/ l.kind = "jmain" /\ name = <<"m", "a", "i", "n">>

\* what C20 says of the line number of a record
FirstOccurrence(record) ==
    LET lines == SplitLines(content)
        hits  == {i \in 1..Len(lines) : Contains(Text(LineAt(lines, i)), record.name)}
    IN  /\ hits # {}
        /\ record.line_number \in hits
        /\ \A i \in hits : record.line_number <= i
        /\ record.line_number >= 1
        /\ record.line_number <= Len(lines)
        /\ \E i \in 1..Len(lines) :
              Declares(LineAt(lines, i), record.name) /\ record.line_number <= i

\* C20: for the heuristic analyzers, the line number of every function and
\* class record is the smallest 1-based index of a line that contains the
\* name of the record; it is at least 1, at most total_lines, and at most
\* the line of the declaration matched.
C20_FirstLine ==
    /\ (pc \in {"analyzed", "done"}
           /\ analyzer \in {Some("JavaScriptAnalyzer"), Some("JavaAnalyzer")}) =>
          /\ \A k \in 1..Len(analysis.functions) : FirstOccurrence(analysis.functions[k])
          /\ \A k \in 1..Len(analysis.classes) : FirstOccurrence(analysis.classes[k])
    /\ (pc = "done" /\ "error" \notin DOMAIN result
           /\ analyzer \in {Some("JavaScriptAnalyzer"), Some("JavaAnalyzer")}) =>
          /\ \A k \in 1..Len(result.functions) :
                /\ result.functions[k].line_number = analysis.functions[k].line_number
                /\ result.functions[k].line_number <= result.total_lines
          /\ \A k \in 1..Len(result.classes) :
                /\ result.classes[k].line_number = analysis.classes[k].line_number
                /\ result.classes[k].line_number <= result.total_lines

\* the class Foo is declared on line 2 and named by the import of line 1:
\* its line number is 1
C20_Witness ==
    /\ pc = "done"
    /\ "error" \notin DOMAIN result
    /\ result.language = "Java"
    /\ Len(content) = 3
    /\ content[1].kind = "jimport"
    /\ content[3].kind = "jclass"
    /\ Len(result.classes) = 1
    /\ result.classes[1].line_number = 1
    /\ result.total_lines = 2

\* a fact of the summary, when it is present
Fact(present, text) == IF present THEN <<text>> ELSE <<>>

\* the facts of a success mapping, in the order of the summary
SummaryFacts(r) ==
    LET n     == Len(r.dependencies)
        named == [k \in 1..(IF n > 3 THEN 3 ELSE n) |-> r.dependencies[k]]
        more  == IF n > 3 THEN <<" e mais ">> \o IntToStr(n - 3) ELSE <<>>
    IN  Fact(r.language # "", <<"Arquivo ", r.language>>)
        \o Fact(Len(r.classes) >= 1, IntToStr(Len(r.classes)) \o <<" classe(s)">>)
        \o Fact(Len(r.functions) >= 1, IntToStr(Len(r.functions)) \o <<" função(ões)">>)
        \o Fact(n >= 1, <<"Dependências: ">> \o JoinWith(<<", ">>, named) \o more)

\* C21: the summary of a success mapping is its present facts, in the order
\* language, class count (with at least one class), function count (with at
\* least one function), dependencies (with at least one), joined with ". ";
\* the dependencies fact names the first three at most and, with more than
\* three, says how many remain: len(dependencies) - 3.
C21_Summary ==
    (pc = "done" /\ "summary" \in DOMAIN result)
        => result.summary = JoinWith(<<". ">>, SummaryFacts(result))

\* a returned summary of a file with classes, functions and more than three
\* dependencies
C21_Witness ==
    /\ pc = "done"
    /\ "summary" \in DOMAIN result
    /\ Len(result.dependencies) > 3
    /\ Len(result.classes) >= 1
    /\ Len(result.functions) >= 1

\* the newline-delimited lines of a text: none in an empty text, otherwise
\* one per newline and one more for a last line without its newline
LineCount(c) ==
    LET newlines == Cardinality({i \in 1..Len(c) : c[i] = NL})
    IN  IF c = <<>> THEN 0
        ELSE IF c[Len(c)] = NL THEN newlines ELSE newlines + 1

\* C22: total_lines of a success mapping is the number of newline-delimited
\* lines of the content: k for k lines each ended by a newline, 0 for an
\* empty file.
C22_TotalLines ==
    (pc = "done" /\ "total_lines" \in DOMAIN result)
        => result.total_lines = LineCount(content)

\* total_lines as _run computes it: one more than the number of newlines
C22_SplitCount ==
    (pc = "done" /\ "total_lines" \in DOMAIN result)
        => result.total_lines = Cardinality({i \in 1..Len(content) : content[i] = NL}) + 1

\* a class of the analysis has the text in its name
ClassNamed(a, text) == \E k \in 1..Len(a.classes) : Contains(a.classes[k].name, text)

\* 'public static void main' in content
MainWritten(c) ==
    \E i \in 1..Len(c) : c[i] # NL /\ Contains(Text(c[i]), <<"p", "u", "b", "l", "i", "c", " ", "s", "t", "a", "t", "i", "c", " ", "v", "o", "i", "d", " ", "m", "a", "i", "n">>)

\* C23: the purpose of a Java analysis is given by the first rule that
\* fires: the entry point "main" (known when the purpose is inferred, so a
\* source with a main method has this label), a class name with "Test", one
\* with "Controller", one with "Service", and the domain-class label
\* otherwise.
C23_Precedence ==
    (pc = "analyzed" /\ analysis.language = "Java") =>
        LET a       == analysis
            isMain  == a.entry_point = Some("main")
            test    == ClassNamed(a, <<"T", "e", "s", "t">>)
            control == ClassNamed(a, <<"C", "o", "n", "t", "r", "o", "l", "l", "e", "r">>)
            service == ClassNamed(a, <<"S", "e", "r", "v", "i", "c", "e">>)
        IN  /\ MainWritten(content) => isMain
            /\ isMain => a.main_purpose = <<"Aplicação principal">>
            /\ (~isMain /\ test) => a.main_purpose = <<"Testes unitários">>
            /\ (~isMain /\ ~test /\ control) => a.main_purpose = <<"Controlador web">>
            /\ (~isMain /\ ~test /\ ~control /\ service) => a.main_purpose = <<"Serviço de negócio">>
            /\ (~isMain /\ ~test /\ ~control /\ ~service) => a.main_purpose = <<"Classe de domínio">>

\* a source with a main method and a test class has the main-application
\* label
C23_Witness ==
    /\ pc = "analyzed"
    /\ analysis.language = "Java"
    /\ MainWritten(content)
    /\ ClassNamed(analysis, <<"T", "e", "s", "t">>)
    /\ ClassNamed(analysis, <<"S", "e", "r", "v", "i", "c", "e">>)
    /\ analysis.main_purpose = <<"Aplicação principal">>

\* "abstract" in content
AbstractWritten(c) ==
    \E i \in 1..Len(c) : c[i] # NL /\ Contains(Text(c[i]), <<"a", "b", "s", "t", "r", "a", "c", "t">>)

\* C27: the class records of a Java analysis all have the same is_abstract,
\* which is true exactly when "abstract" occurs somewhere in the content,
\* whatever the modifiers of the class's own declaration.
C27_AbstractAnywhere ==
    (pc = "analyzed" /\ analysis.language = "Java") =>
        \A k \in 1..Len(analysis.classes) :
            analysis.classes[k].is_abstract = AbstractWritten(content)

\* a class declared without the modifier, in a source where another class
\* has it, is recorded as abstract
C27_Witness ==
    /\ pc = "analyzed"
    /\ analysis.language = "Java"
    /\ \E i \in 1..Len(content) :
          /\ content[i] # NL
          /\ content[i].kind = "jclass"
          /\ content[i].ret # "abstract"
          /\ \E k \in 1..Len(analysis.classes) :
                /\ analysis.classes[k].name = content[i].name
                /\ analysis.classes[k].is_abstract

\* C26: in a call routed to the JavaScript analyzer the language tag is
\* "TypeScript" exactly when the lowercased extension of the path is .ts or
\* .tsx, and "JavaScript" exactly when it is .js or .jsx.
C26_LanguageTag ==
    (pc = "analyzed" /\ analyzer = Some("JavaScriptAnalyzer")) =>
        /\ analysis.language = "TypeScript" <=> file_ext \in {<<".", "t", "s">>, <<".", "t", "s", "x">>}
        /\ analysis.language = "JavaScript" <=> file_ext \in {<<".", "j", "s">>, <<".", "j", "s", "x">>}

\* the tag as JavaScriptAnalyzer.analyze computes it: by the ending of the
\* path as written, capitals kept
C26_TagOfWrittenPath ==
    (pc = "analyzed" /\ analyzer = Some("JavaScriptAnalyzer")) =>
        analysis.language = "TypeScript"
            <=> (EndsWith(file_path, <<".", "t", "s">>) \/ EndsWith(file_path, <<".", "t", "s", "x">>))

\* no analyzer of _run's list owns the extension of the path
Unowned(p) ==
    \A k \in 1..Len(Analyzers) :
        Lower(PathSuffix(p)) \notin Range(get_file_extensions(Analyzers[k]))

\* C25: _run looks at the extension before it opens the file.  A call on a
\* path of an unowned extension never comes to the read nor to an analyzer
\* and ends with the unsupported-language mapping whatever is at the path
\* (a missing file too); the content is taken only by the read of a call
\* that has an analyzer, and an analysis is built only from the content of
\* a read that succeeded.
C25_ExtensionFirst ==
    [][ /\ Unowned(file_path) =>
              /\ pc' \in {"start", "done"}
              /\ pc' = "done" => result' = UnsupportedMapping(Lower(PathSuffix(file_path)))
              /\ content' = content /\ analysis' = analysis
        /\ pc' = "read" => analyzer' # None
        /\ content' # content => (pc = "read" /\ disk.status = "ok" /\ content' = disk.content)
        /\ analysis' # analysis =>
              (pc \in {"analyze", "walk"} /\ disk.status = "ok" /\ content = disk.content)
        /\ pc' \in {"analyze", "walk", "analyzed"} => disk.status = "ok"
      ]_vars

\* a call on a missing file of an unowned extension has returned the
\* unsupported-language mapping
C25_Witness ==
    /\ pc = "done"
    /\ disk.status = "missing"
    /\ Unowned(file_path)
    /\ result = UnsupportedMapping(file_ext)

\* the analyzer at position i of the list owns the extension
Owns(list, i, ext) == ext \in Range(get_file_extensions(list[i]))

\* C24: whatever the list, _get_analyzer_for_extension returns the analyzer
\* at the first position of the list that owns the extension (None when no
\* position owns it), also when several analyzers own it; and the
\* extensions of the three analyzers of _run's list are pairwise disjoint.
C24_FirstRegistered ==
    /\ pc = "found" =>
          IF \E i \in 1..Len(run_analyzers) : Owns(run_analyzers, i, file_ext)
          THEN \E i \in 1..Len(run_analyzers) :
                  /\ Owns(run_analyzers, i, file_ext)
                  /\ \A j \in 1..(i - 1) : ~Owns(run_analyzers, j, file_ext)
                  /\ analyzer = Some(run_analyzers[i])
          ELSE analyzer = None
    /\ \A i, j \in 1..Len(Analyzers) :
          i # j => Range(get_file_extensions(Analyzers[i]))
                       \cap Range(get_file_extensions(Analyzers[j])) = {}

\* a lookup in a list where two analyzers of different classes own the
\* extension has returned the one registered first
C24_Witness ==
    /\ pc = "found"
    /\ \E i, j \in 1..Len(run_analyzers) :
          /\ i < j
          /\ run_analyzers[i] # run_analyzers[j]
          /\ Owns(run_analyzers, i, file_ext)
          /\ Owns(run_analyzers, j, file_ext)
          /\ \A k \in 1..(i - 1) : ~Owns(run_analyzers, k, file_ext)
          /\ analyzer = Some(run_analyzers[i])

\* the markers of a list of paths, in the order of the list
MarkersOf(paths) == Flatten([k \in 1..Len(paths) |-> Marker(paths[k])])

\* the crew was started, at its n-th start, with the description of
\* create_analysis_task followed by the markers of the first n calls
HandedAllMarkers ==
    \A n \in 1..Len(create_crew.kickoffs) :
        create_crew.kickoffs[n].description
            = AnalysisDescription
                \o MarkersOf([k \in 1..n |-> create_crew.kickoffs[k].file_path])

\* a step leaves the description of the analysis task or adds a marker at
\* its end
OnlyAppends ==
    \/ create_crew'.description = create_crew.description
    \/ \E path \in CrewPaths :
          create_crew'.description = create_crew.description \o Marker(path)

\* C28: generate_documentation accumulates: each call adds the marker of its
\* path to the description of the shared analysis task and none is ever
\* taken away, so the k-th call on an instance starts the crew with a
\* description that holds the markers of all k calls, in call order.
C28_Accumulates == []HandedAllMarkers /\ [][OnlyAppends]_vars

\* the third call, on a third path, has started the crew with the markers
\* of the three paths
C28_Witness ==
    /\ Len(create_crew.kickoffs) = 3
    /\ create_crew.kickoffs[1].file_path = <<"a", ".", "p", "y">>
    /\ create_crew.kickoffs[2].file_path = <<"b", ".", "j", "s">>
    /\ create_crew.kickoffs[3].file_path = <<"c", ".", "j", "a", "v", "a">>
    /\ create_crew.kickoffs[3].description
           = AnalysisDescription \o Marker(<<"a", ".", "p", "y">>) \o Marker(<<"b", ".", "j", "s">>) \o Marker(<<"c", ".", "j", "a", "v", "a">>)

====
